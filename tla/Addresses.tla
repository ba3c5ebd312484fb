------------------------------ MODULE Addresses ------------------------------
(***************************************************************************)
(* How many addresses of a swarm network are in use (internal/ipam), and   *)
(* the count every caller shares (internal/cache/addresses.go).            *)
(*                                                                         *)
(* A network has its pools, of IPv4: the addresses of the subnet, those of *)
(* the range to take them from ({} for all of it), the gateway (None when  *)
(* none is named), whether the subnet keeps its first and last address for *)
(* itself (a /31 or /32 does not), and the pool's family.  A service has   *)
(* the addresses it holds in each network, a task those and where it runs. *)
(***************************************************************************)
EXTENDS Integers, Sequences, FiniteSets, FiniteSetsExt

CONSTANT None   \* what stands for no address and no count

(* usable: by arithmetic over the bounds of the range, an address that is  *)
(* reserved twice taken off once.                                          *)
usable(pool) ==
  LET first == Min(pool.subnet)  last == Max(pool.subnet)
      low == IF pool.range = {} THEN first ELSE Max({first, Min(pool.range)})
      high == IF pool.range = {} THEN last ELSE Min({last, Max(pool.range)})
      ends == IF pool.keepsEnds THEN {first, last} ELSE {}
      free == (low..high) \ ends
      gateway == IF pool.gateway # None THEN {pool.gateway}
                 ELSE IF free = {} THEN {} ELSE {Min(free)}
  IN  IF low > high THEN 0
      ELSE high - low + 1 - Cardinality({a \in ends \cup gateway : low <= a /\ a <= high})

(* Counted *)
Measured(n) == {p \in n.pools : p.family = "IPv4"}
Counted(n) == n.scope = "swarm" /\ n.driver \in {"", "default"} /\ Measured(n) # {}

live(task) == task.state \in {"pending", "starting", "running"}

(* Count: an address is taken once, by the first that holds it, services   *)
(* before tasks; each node a live task joins from needs a balancer, and of *)
(* the ingress network every node.                                         *)
Count(n, services, tasks, nodes) ==
  LET vips == UNION {s.addresses[n.id] : s \in services}
      joined == {t \in tasks : live(t) /\ n.id \in t.joined}
      held == UNION {t.addresses[n.id] : t \in joined} \ vips
      balancers == IF n.ingress THEN nodes ELSE Cardinality({t.node : t \in joined} \ {""})
  IN  [usable |-> MapThenSumSet(usable, Measured(n)), vips |-> Cardinality(vips),
       tasks |-> Cardinality(held), balancers |-> balancers,
       used |-> Cardinality(vips) + Cardinality(held) + balancers,
       more |-> n.attachable]

(* NetworkAddresses: what is counted is never older than its key, and what *)
(* storeAddresses keeps never gives way to an older count.                 *)
NoMemo == [generation |-> 0, counts |-> None]
storeAddresses(memo, generation, counts) ==
  IF memo.generation >= generation /\ memo # NoMemo THEN memo
  ELSE [generation |-> generation, counts |-> counts]
NetworkAddresses(memo, generation, counts) ==
  IF memo.generation = generation /\ memo # NoMemo THEN memo.counts
  ELSE counts
=============================================================================
