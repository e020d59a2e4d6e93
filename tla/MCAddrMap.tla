----------------------------- MODULE MCAddrMap -----------------------------
(***************************************************************************)
(* Small instances of AddrMap.  The pool is p0..p3, with p0 reserved and   *)
(* p3 taken by tayga.conf; 0.0.0.0/0 is the NAT64 prefix, n_x standing for *)
(* the embedding of x.                                                     *)
(***************************************************************************)
EXTENDS AddrMap, TLC

MCV4 == {"p0", "p1", "p2", "p3", "l", "w", "x", "y"}
MCPool == {"p0", "p1", "p2", "p3"}

\* RFC 6052 embedding in the NAT64 prefix.
Embed == [p0 |-> "n_p0", p1 |-> "n_p1", p2 |-> "n_p2", p3 |-> "n_p3",
          l |-> "n_l", w |-> "n_w", x |-> "n_x", y |-> "n_y"]
Embedded == {Embed[v] : v \in MCV4}
Clients == {"h1", "h2", "h3"}
MCV6 == Embedded \cup Clients \cup
        {"s3", "l6", "w0", "w1", "f_x", "f_y", "i1", "i2", "i3"}

None == "none"

\* self        ipv4-addr and ipv6-addr
\* nat64       the prefix directive
\* static3     a host mapping inside the pool, in tayga.conf
\* wide        a /32 onto a shorter IPv6 prefix, in tayga.conf
\* net         map-file: a /31 and its IPv6 range
\* client      map-file: a /32 whose IPv6 side is an ordinary client
\* in1, in23   map-file: a /32 and a /31 inside the pool
Range4 == [self |-> {"l"}, nat64 |-> MCV4, static3 |-> {"p3"}, wide |-> {"w"},
           net |-> {"x", "y"}, client |-> {"x"}, in1 |-> {"p1"},
           in23 |-> {"p2", "p3"}]
Range6 == [self |-> {"l6"}, nat64 |-> Embedded, static3 |-> {"s3"},
           wide |-> {"w0", "w1"}, net |-> {"f_x", "f_y"}, client |-> {"h3"},
           in1 |-> {"i1"}, in23 |-> {"i2", "i3"}]
MCMaps == DOMAIN Range4
MCConf == {"self", "nat64", "static3", "wide"}

\* How each mapping pairs addresses; wide also takes w1 back to w.
Pairs(m) ==
  CASE m = "self"    -> {<<"l", "l6">>}
    [] m = "nat64"   -> {<<v, Embed[v]>> : v \in MCV4}
    [] m = "static3" -> {<<"p3", "s3">>}
    [] m = "wide"    -> {<<"w", "w0">>}
    [] m = "net"     -> {<<"x", "f_x">>, <<"y", "f_y">>}
    [] m = "client"  -> {<<"x", "h3">>}
    [] m = "in1"     -> {<<"p1", "i1">>}
    [] m = "in23"    -> {<<"p2", "i2">>, <<"p3", "i3">>}

MCTo6 ==
  [m \in MCMaps |-> [v \in MCV4 |->
     IF \E h \in MCV6 : <<v, h>> \in Pairs(m)
     THEN CHOOSE h \in MCV6 : <<v, h>> \in Pairs(m) ELSE None]]
MCFrom6 ==
  [m \in MCMaps |-> [h \in MCV6 |->
     IF m = "wide" /\ h \in Range6["wide"] THEN "w"
     ELSE IF \E v \in MCV4 : <<v, h>> \in Pairs(m)
     THEN CHOOSE v \in MCV4 : <<v, h>> \in Pairs(m) ELSE None]]
MCKind ==
  [m \in MCMaps |-> CASE m = "nat64" -> "prefix"
                      [] m \in {"net", "in23"} -> "subnet"
                      [] OTHER -> "host"]
MCPair == [m \in MCMaps |-> m # "wide"]

\* tayga.conf without ipv6-addr: config_validate generates local_addr6 in the
\* NAT64 prefix and puts no IPv6 entry for it in map6_list.
Generated6 == [Range6 EXCEPT !["self"] = {}]
GeneratedTo6 == [MCTo6 EXCEPT !["self"]["l"] = "n_l"]
GeneratedFrom6 ==
  [MCFrom6 EXCEPT !["self"] = [h \in MCV6 |-> IF h = "n_l" THEN "l" ELSE None]]

\* Map-files that stay clear of the pool, and map-files that do not.
OutsideFiles == {{}, {"net"}, {"client"}}
\* A map-file of which one entry may conflict while the other does not.
MixedFiles == {{}, {"net", "client"}}
NoFiles == {{}}
InsideFiles == {{}, {"in1"}, {"in23"}}

\* The cache entries are interchangeable.
SlotSymmetry == Permutations(Slots)

Lookups4 == {"p1", "x"}
Lookups6 == {"h1", "h3"}
PoolLookups4 == {"p1"}
TwoClients == {"h1", "h2"}
PoolLookups6 == Clients
============================================================================
