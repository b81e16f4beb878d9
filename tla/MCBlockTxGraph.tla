--------------------------- MODULE MCBlockTxGraph ----------------------------
(* Instances of BlockTxGraph for TLC: blocks of four transactions.         *)
EXTENDS BlockTxGraph

UpTo(S, n) == UNION {[1..k -> S] : k \in 0..n}

None == [i \in 1..4 |-> <<>>]

\* Every choice of up to two inputs per transaction, no claims.
Spending ==
  {[vin |-> <<a, b, c, d>>, vout |-> None] :
     a \in UpTo({0}, 1), b \in UpTo(0..1, 2), c \in UpTo(0..2, 2), d \in UpTo(0..3, 2)}

Out(kinds, claims) == [kind : kinds, claim : claims]

Chain == <<<<0>>, <<1>>, <<>>, <<2, 2>>>>

\* One claim that is created, supported and updated: a claim is created once,
\* updated only after that, and may be supported before it exists.
Creating(c) ==
  LET new == [kind |-> "claimName", claim |-> c]
      use == UpTo(Out({"update", "support"}, {c}), 1)
      sup == UpTo(Out({"support"}, {c}), 1)
  IN  {[vin |-> None, vout |-> <<a, <<new>> \o b, d, e>>] :
         a \in sup, b \in use, d \in use, e \in use}

\* One claim and up to two outputs of a transaction that touch it, or two
\* claims and one output; the second with and without spends in the block.
OneClaim(c) ==
  {[vin |-> None, vout |-> v] : v \in [1..4 -> UpTo(Out({"update", "purchase"}, {c}), 2)]}

TwoClaims(cs) ==
  {[vin |-> g, vout |-> v] : g \in {None, Chain},
                             v \in [1..4 -> UpTo(Out({"update", "support"}, cs), 1)]}

\* Scripts that mean nothing to the graph, next to some that do.
Others(c) ==
  {[vin |-> Chain, vout |-> v] : v \in [1..4 -> UpTo(Out({"other", "support"}, {c}), 1)]}

AnyClaim == CHOOSE c \in Claims : TRUE

AllBlocks ==
  Spending \cup Creating(AnyClaim) \cup OneClaim(AnyClaim) \cup TwoClaims(Claims)
    \cup Others(AnyClaim)

=============================================================================
