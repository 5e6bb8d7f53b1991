--------------------------- MODULE StartupProofs ---------------------------
(* Proofs about module Startup: whatever database an earlier build left, and *)
(* wherever the panel and the tool were cut off, a panel that answers has    *)
(* what it needs, the rows of operators are theirs, and there is one owner.  *)
EXTENDS Startup, TLAPS

-----------------------------------------------------------------------------
(* The inductive invariant *)

Rooms    == (SUBSET Pools) \cup {None}
Ends     == Targets \cup {None}
Choices  == RuleSet \cup {None}
Adapters == {"known", "unknown"}
Objects  == Tables \cup Columns \cup Made(1..12)

Db == [schema : SUBSET Objects, recorded : SUBSET (1..12), keys : SUBSET Keys,
       rows : BOOLEAN, admins : Nat, setting : Value, dns : Value,
       adapter : [Adapters -> Nat],
       pool : [Pools -> Rooms], rule : [Rules -> Ends], set : [Sets -> Choices]]

Kept == [pool : [{"OWN"} -> Rooms] \cup [Pools -> Rooms],
         rule : [{"own"} -> Ends] \cup [Rules -> Ends],
         set  : [{"own"} -> Choices] \cup [{"own", "custom-direct"} -> Choices]
                    \cup [Sets -> Choices],
         dns : Value, setting : Value, unknown : Nat]

(* The steps of a start, by what is behind whoever takes them.               *)
Up         == {"up"}
AfterDaily == Up \cup {"admins"}
AfterSmart == AfterDaily \cup {"daily?", "daily"}
AfterSeed  == AfterSmart \cup {"smart?", "smart"}
AfterSettings == AfterSeed \cup {"adapters", "seed", "sets", "policy", "dns", "mark"}
Migrated   == AfterSettings \cup {"settings"}
Steps      == Migrated \cup {"down", "tables", "columns", "alter", "migrate"}

ShapeOK ==
    /\ db \in Db /\ kept \in Kept
    /\ pc \in [Starters -> Steps]
    /\ missing \in [Starters -> SUBSET Columns]
    /\ request \in [Requests -> {"idle", "hashing"}]
    /\ token \in BOOLEAN
    /\ excepted \in [overlap : BOOLEAN, noDns : BOOLEAN, meddled : BOOLEAN]
    /\ left \in [Kinds -> Nat]

(* Keys come in order, none before the table that holds them, and no starter *)
(* is further than the keys say.                                             *)
KeysOK ==
    /\ 8 \notin db.recorded => db.keys = {}
    /\ "daily" \in db.keys => "smart-auto" \in db.keys
    /\ "smart-auto" \in db.keys => "client-routing" \in db.keys

StageOK(s) ==
    /\ pc[s] \in Migrated   => db.recorded = 1..12
    /\ pc[s] \in AfterSettings => db.setting # None
    /\ pc[s] \in AfterSeed  => "client-routing" \in db.keys
    /\ pc[s] \in AfterSmart => "smart-auto" \in db.keys
    /\ pc[s] \in AfterDaily => "daily" \in db.keys
    /\ pc[s] = "mark" => db.dns # None

StagesOK == \A s \in Starters : StageOK(s)

(* The panel alone answers, and with an owner or a token.                    *)
OwnerOK ==
    /\ pc["tool"] # "up"
    /\ db.admins <= 1
    /\ pc["panel"] = "up" => db.admins > 0 \/ token
    /\ \A r \in Requests : request[r] = "hashing" => db.recorded = 1..12

(* A database without rows has no row at all until it was migrated, and so   *)
(* is not taken for an old one; an old one has a DNS policy, or never had.   *)
DnsOK ==
    /\ ~db.rows /\ 8 \notin db.recorded =>
          db.admins = 0 /\ db.setting = None /\ \A t \in Sets : db.set[t] = None
    /\ ~excepted.noDns /\ (db.rows \/ "client-routing" \in db.keys) => db.dns # None

DirectOK == db.set["custom-direct"] # None => db.set["custom-direct"].target = "DIRECT"

(* The policy validates, and between the two changes so would the policy     *)
(* that the second makes of it.                                              *)
PolicyOK ==
    ~excepted.meddled =>
        /\ Valid(db)
        /\ "smart-auto" \in db.keys /\ "daily" \notin db.keys => Valid(DailyRouting(db))

(* The database as the last one-time change leaves it. *)
Upgraded(d) == IF "daily" \in d.keys THEN d ELSE DailyRouting(d)

(* Before the last one-time change, only rows of operators are looked at.    *)
DomainsOK ==
    "daily" \notin db.keys =>
        /\ DOMAIN kept.pool = {"OWN"} /\ DOMAIN kept.rule = {"own"}
        /\ DOMAIN kept.set \subseteq {"own", "custom-direct"}
        /\ "custom-direct" \in DOMAIN kept.set => db.set["custom-direct"] # None

RowsKept(d, k) ==
    /\ \A i \in DOMAIN k.pool : Upgraded(d).pool[i] = k.pool[i]
    /\ \A r \in DOMAIN k.rule : Upgraded(d).rule[r] = k.rule[r]
    /\ \A t \in DOMAIN k.set : Upgraded(d).set[t] = k.set[t]
    /\ k.dns # None => d.dns = k.dns
    /\ k.setting # None => d.setting = k.setting
    /\ d.adapter["unknown"] = k.unknown

KeptOK == ~excepted.overlap => RowsKept(db, kept)

IInv == ShapeOK /\ KeysOK /\ StagesOK /\ OwnerOK /\ DnsOK /\ DirectOK /\ PolicyOK
        /\ DomainsOK /\ KeptOK

-----------------------------------------------------------------------------
(* Facts about the operators *)

LEMMA NoneIsNothing ==
    None \notin Targets /\ None # "shipped" /\ None # "operator"
    /\ (\A x \in SUBSET Pools : x # None) /\ (\A x \in RuleSet : x # None)
<1>1. None \notin Targets \cup {"shipped", "operator"} /\ \A x \in (SUBSET Pools) \cup RuleSet : x # None
    BY ConstantsAssumption DEF ConstantsAssumption
<1> QED
    BY <1>1

LEMMA MadeIsObjects ==
    ASSUME NEW is \in SUBSET (1..12)
    PROVE  Made(is) \subseteq Objects
BY DEF Made, Objects

LEMMA ReplacedType ==
    /\ \A x \in Targets : Replaced(x) \in Targets /\ Replaced(x) # "LEGACY"
    /\ \A x \in Pools : Replaced(x) \in Pools
    /\ Replaced(None) = None
    /\ \A x \in Ends : Replaced(x) \in Ends /\ Replaced(Replaced(x)) = Replaced(x)
<1>1. \A x \in Targets : Replaced(x) \in Targets /\ Replaced(x) # "LEGACY"
    BY DEF Replaced, Targets, Pools
<1>2. \A x \in Pools : Replaced(x) \in Pools
    BY DEF Replaced, Pools
<1>3. Replaced(None) = None
    BY NoneIsNothing DEF Replaced, Targets, Pools
<1>4. \A x \in Targets : Replaced(Replaced(x)) = Replaced(x)
    BY <1>1 DEF Replaced
<1> QED
    BY <1>1, <1>2, <1>3, <1>4 DEF Ends

LEMMA PoolMoved ==
    ASSUME NEW x \in Rooms
    PROVE  /\ MovedPool(x) \in Rooms
           /\ MovedPool(MovedPool(x)) = MovedPool(x)
           /\ MovedPool(x) = None <=> x = None
<1>1. CASE x = None
    BY <1>1 DEF MovedPool, Rooms
<1>2. CASE x # None
    <2>1. x \in SUBSET Pools
        BY <1>2 DEF Rooms
    <2>2. MovedPool(x) = {Replaced(m) : m \in x} /\ MovedPool(x) \in SUBSET Pools
        BY <1>2, <2>1, ReplacedType DEF MovedPool
    <2>3. MovedPool(x) # None
        BY <2>2, NoneIsNothing
    <2>4. MovedPool(MovedPool(x)) = {Replaced(m) : m \in MovedPool(x)}
        BY <2>3 DEF MovedPool
    <2>5. \A m \in x : Replaced(Replaced(m)) = Replaced(m)
        BY <2>1, ReplacedType DEF Ends, Targets
    <2> QED
        BY <1>2, <2>2, <2>3, <2>4, <2>5 DEF Rooms
<1> QED
    BY <1>1, <1>2

LEMMA SetMoved ==
    ASSUME NEW x \in Choices
    PROVE  /\ MovedSet(x) \in Choices
           /\ MovedSet(MovedSet(x)) = MovedSet(x)
           /\ MovedSet(x) = None <=> x = None
           /\ x # None => x \in RuleSet
           /\ x # None => MovedSet(x) = [target |-> Replaced(x.target), payload |-> x.payload]
<1>1. CASE x = None
    BY <1>1 DEF MovedSet, Choices
<1>2. CASE x # None
    <2>1. x \in RuleSet /\ x.target \in Targets
        BY <1>2 DEF Choices, RuleSet
    <2>2. MovedSet(x) = [target |-> Replaced(x.target), payload |-> x.payload]
        BY <1>2, <2>1 DEF MovedSet, RuleSet
    <2>3. MovedSet(x) \in RuleSet /\ MovedSet(x) # None
        <3>1. MovedSet(x) \in RuleSet
            BY <2>1, <2>2, ReplacedType DEF RuleSet
        <3> QED
            BY <3>1, NoneIsNothing
    <2>4. Replaced(Replaced(x.target)) = Replaced(x.target)
        BY <2>1, ReplacedType DEF Ends
    <2>5. MovedSet(MovedSet(x)) = [MovedSet(x) EXCEPT !.target = Replaced(@)]
        BY <2>3 DEF MovedSet
    <2>6. MovedSet(MovedSet(x)) = MovedSet(x)
        <3> DEFINE y == [target |-> Replaced(x.target), payload |-> x.payload]
        <3>1. [y EXCEPT !.target = Replaced(@)]
                = [target |-> Replaced(Replaced(x.target)), payload |-> x.payload]
            OBVIOUS
        <3> QED
            BY <2>2, <2>4, <2>5, <3>1
    <2> QED
        BY <1>2, <2>1, <2>2, <2>3, <2>6 DEF Choices
<1> QED
    BY <1>1, <1>2

(* A database after each change, row by row. *)
LEMMA WithoutLegacyRows ==
    ASSUME NEW d \in Db
    PROVE  LET w == WithoutLegacy(d)
           IN  /\ w.pool = [i \in Pools |-> MovedPool(d.pool[i])]
               /\ w.rule = [r \in Rules |-> Replaced(d.rule[r])]
               /\ w.set = [t \in Sets |-> MovedSet(d.set[t])]
               /\ w = [d EXCEPT !.pool = w.pool, !.rule = w.rule, !.set = w.set]
<1> DEFINE p == [i \in Pools |-> MovedPool(d.pool[i])]
           q == [r \in Rules |-> Replaced(d.rule[r])]
           s == [t \in Sets |-> MovedSet(d.set[t])]
<1>1. WithoutLegacy(d) = [d EXCEPT !.pool = p, !.rule = q, !.set = s]
    BY DEF WithoutLegacy
<1> HIDE DEF p, q, s
<1>2. LET w == WithoutLegacy(d)
      IN  w.pool = p /\ w.rule = q /\ w.set = s
    BY <1>1 DEF Db
<1> QED
    BY <1>1, <1>2 DEF p, q, s

LEMMA DailyRows ==
    ASSUME NEW d \in Db
    PROVE  LET n == DailyRouting(d)
           IN  /\ n \in Db
               /\ n.pool = [i \in Pools |-> IF i = "LEGACY" THEN None ELSE MovedPool(d.pool[i])]
               /\ n.rule = [r \in Rules |-> Replaced(d.rule[r])]
               /\ n.set["own"] = MovedSet(d.set["own"])
               /\ n.set["custom-direct"] = IF d.set["custom-direct"] = None THEN CustomDirect
                        ELSE [target |-> "DIRECT", payload |-> d.set["custom-direct"].payload]
               /\ n.keys = d.keys /\ n.recorded = d.recorded /\ n.rows = d.rows
               /\ n.admins = d.admins /\ n.dns = d.dns /\ n.setting = d.setting
               /\ n.adapter = d.adapter /\ n.schema = d.schema
<1> DEFINE w == WithoutLegacy(d)
           n == DailyRouting(d)
<1>1. /\ d.pool \in [Pools -> Rooms] /\ d.rule \in [Rules -> Ends]
      /\ d.set \in [Sets -> Choices]
    BY DEF Db
<1>2. /\ w.pool = [i \in Pools |-> MovedPool(d.pool[i])]
      /\ w.rule = [r \in Rules |-> Replaced(d.rule[r])]
      /\ w.set = [t \in Sets |-> MovedSet(d.set[t])]
      /\ w = [d EXCEPT !.pool = w.pool, !.rule = w.rule, !.set = w.set]
    BY WithoutLegacyRows
<1>3. /\ w.pool \in [Pools -> Rooms] /\ w.rule \in [Rules -> Ends]
      /\ w.set \in [Sets -> Choices]
    <2> HIDE DEF w
    <2>1. \A i \in Pools : MovedPool(d.pool[i]) \in Rooms
        BY <1>1, PoolMoved
    <2>2. \A r \in Rules : Replaced(d.rule[r]) \in Ends
        BY <1>1, ReplacedType
    <2>3. ASSUME NEW t \in Sets PROVE MovedSet(d.set[t]) \in Choices
        <3>1. d.set[t] \in Choices
            BY <1>1
        <3> QED
            BY <3>1, SetMoved
    <2> QED
        BY <1>2, <2>1, <2>2, <2>3
<1>4. w \in Db
    <2> HIDE DEF w
    <2> QED
        BY <1>2, <1>3 DEF Db
<1> DEFINE c == IF w.set["custom-direct"] = None THEN CustomDirect
                ELSE [w.set["custom-direct"] EXCEPT !.target = "DIRECT"]
           p == [w.pool EXCEPT !["LEGACY"] = None]
           q == [w.set EXCEPT !["legacy"] = None, !["custom-direct"] = c]
<1>5. n = [w EXCEPT !.pool = p, !.set = q]
    <2> HIDE DEF w
    <2>1. n = [w EXCEPT !.pool["LEGACY"] = None, !.set["legacy"] = None,
                 !.set["custom-direct"] = IF @ = None THEN CustomDirect
                                          ELSE [@ EXCEPT !.target = "DIRECT"]]
        BY DEF DailyRouting, w
    <2> QED
        BY <2>1, <1>4 DEF Db, Sets
<1>6. c = IF d.set["custom-direct"] = None THEN CustomDirect
          ELSE [target |-> "DIRECT", payload |-> d.set["custom-direct"].payload]
    <2>1. d.set["custom-direct"] \in Choices /\ w.set["custom-direct"] = MovedSet(d.set["custom-direct"])
        BY <1>1, <1>2 DEF Sets
    <2>2. CASE d.set["custom-direct"] = None
        <3>1. w.set["custom-direct"] = None
            BY <2>1, <2>2, SetMoved
        <3> QED
            BY <2>2, <3>1
    <2>3. CASE d.set["custom-direct"] # None
        <3> DEFINE x == d.set["custom-direct"]
        <3>1. /\ x \in RuleSet /\ w.set["custom-direct"] # None
              /\ w.set["custom-direct"] = [target |-> Replaced(x.target), payload |-> x.payload]
            BY <2>1, <2>3, SetMoved
        <3>2. c = [[target |-> Replaced(x.target), payload |-> x.payload] EXCEPT !.target = "DIRECT"]
            BY <3>1
        <3> QED
            BY <2>3, <3>2
    <2> QED
        BY <2>2, <2>3
<1>7. c \in RuleSet
    <2>1. d.set["custom-direct"] \in Choices
        BY <1>1 DEF Sets
    <2>2. d.set["custom-direct"] # None => d.set["custom-direct"].payload \in {"shipped", "operator"}
        BY <2>1 DEF Choices, RuleSet
    <2> HIDE DEF c
    <2> QED
        BY <1>6, <2>2 DEF RuleSet, CustomDirect, Targets
<1> HIDE DEF w, c
<1>8. p \in [Pools -> Rooms] /\ q \in [Sets -> Choices]
    BY <1>3, <1>7 DEF Rooms, Choices
<1>9. n \in Db
    <2> HIDE DEF p, q, n
    <2> QED
        BY <1>4, <1>5, <1>8 DEF Db
<1>10. n.pool = p /\ n.set = q /\ n.rule = w.rule
    <2> HIDE DEF p, q, n
    <2> QED
        BY <1>4, <1>5, <1>8 DEF Db
<1>11. /\ p = [i \in Pools |-> IF i = "LEGACY" THEN None ELSE MovedPool(d.pool[i])]
       /\ q["own"] = MovedSet(d.set["own"]) /\ q["custom-direct"] = c
    BY <1>2, <1>3 DEF Sets
<1>12. /\ n.keys = d.keys /\ n.recorded = d.recorded /\ n.rows = d.rows
       /\ n.admins = d.admins /\ n.dns = d.dns /\ n.setting = d.setting
       /\ n.adapter = d.adapter /\ n.schema = d.schema
    <2> HIDE DEF p, q, n
    <2> QED
        BY <1>2, <1>5 DEF Db
<1> HIDE DEF n, p, q
<1> QED
    BY <1>2, <1>6, <1>9, <1>10, <1>11, <1>12 DEF n

LEMMA SmartRows ==
    ASSUME NEW d \in Db
    PROVE  LET n == SmartAutoPolicy(d)
           IN  /\ n \in Db
               /\ n.pool = [i \in Pools |-> IF i = "OWN" THEN MovedPool(d.pool[i])
                                            ELSE Shipped.pool[i]]
               /\ n.rule = [r \in Rules |-> IF r = "own" THEN Replaced(d.rule[r])
                                            ELSE Shipped.rule[r]]
               /\ n.set = [t \in Sets |-> MovedSet(d.set[t])]
               /\ n.keys = d.keys /\ n.recorded = d.recorded /\ n.rows = d.rows
               /\ n.admins = d.admins /\ n.dns = d.dns /\ n.setting = d.setting
               /\ n.adapter = d.adapter /\ n.schema = d.schema
<1> DEFINE w == WithoutLegacy(d)
           n == SmartAutoPolicy(d)
<1>1. /\ d.pool \in [Pools -> Rooms] /\ d.rule \in [Rules -> Ends]
      /\ d.set \in [Sets -> Choices]
    BY DEF Db
<1>2. /\ w.pool = [i \in Pools |-> MovedPool(d.pool[i])]
      /\ w.rule = [r \in Rules |-> Replaced(d.rule[r])]
      /\ w.set = [t \in Sets |-> MovedSet(d.set[t])]
      /\ w = [d EXCEPT !.pool = w.pool, !.rule = w.rule, !.set = w.set]
    BY WithoutLegacyRows
<1>3. /\ w.pool \in [Pools -> Rooms] /\ w.rule \in [Rules -> Ends]
      /\ w.set \in [Sets -> Choices]
    <2> HIDE DEF w
    <2>1. \A i \in Pools : MovedPool(d.pool[i]) \in Rooms
        BY <1>1, PoolMoved
    <2>2. \A r \in Rules : Replaced(d.rule[r]) \in Ends
        BY <1>1, ReplacedType
    <2>3. ASSUME NEW t \in Sets PROVE MovedSet(d.set[t]) \in Choices
        <3>1. d.set[t] \in Choices
            BY <1>1
        <3> QED
            BY <3>1, SetMoved
    <2> QED
        BY <1>2, <2>1, <2>2, <2>3
<1>4. w \in Db
    <2> HIDE DEF w
    <2> QED
        BY <1>2, <1>3 DEF Db
<1> DEFINE p == [i \in Pools |-> IF i = "OWN" THEN w.pool[i] ELSE Shipped.pool[i]]
           q == [r \in Rules |-> IF r = "own" THEN w.rule[r] ELSE Shipped.rule[r]]
<1>5. n = [w EXCEPT !.pool = p, !.rule = q]
    BY <1>4 DEF SmartAutoPolicy, Db
<1>6. Shipped.pool \in [Pools -> Rooms] /\ Shipped.rule \in [Rules -> Ends]
    BY DEF Shipped, Rooms, Ends, Pools, Rules, Targets
<1> HIDE DEF w
<1>7. p \in [Pools -> Rooms] /\ q \in [Rules -> Ends]
    BY <1>3, <1>6
<1>8. /\ p = [i \in Pools |-> IF i = "OWN" THEN MovedPool(d.pool[i]) ELSE Shipped.pool[i]]
      /\ q = [r \in Rules |-> IF r = "own" THEN Replaced(d.rule[r]) ELSE Shipped.rule[r]]
    BY <1>2
<1> HIDE DEF n, p, q
<1>9. n \in Db /\ n.pool = p /\ n.rule = q /\ n.set = w.set
    BY <1>4, <1>5, <1>7 DEF Db
<1>10. /\ n.keys = d.keys /\ n.recorded = d.recorded /\ n.rows = d.rows
       /\ n.admins = d.admins /\ n.dns = d.dns /\ n.setting = d.setting
       /\ n.adapter = d.adapter /\ n.schema = d.schema
    BY <1>2, <1>5 DEF Db
<1> QED
    BY <1>2, <1>8, <1>9, <1>10 DEF n

-----------------------------------------------------------------------------
(* Policies that validate *)

LEMMA ShippedRows ==
    /\ Shipped.pool = [i \in Pools |-> IF i = "SMART" THEN {"FAST"}
                                      ELSE IF i = "FAST" THEN {} ELSE None]
    /\ Shipped.rule = [r \in Rules |-> IF r = "catch-all" THEN "SMART" ELSE None]
BY DEF Shipped

(* Validity is about nothing but the two tables. *)
LEMMA ValidIsOfRows ==
    ASSUME NEW p, NEW q, p.pool = q.pool, p.rule = q.rule, Valid(p)
    PROVE  Valid(q)
BY DEF Valid, Present

(* The shipped pools, with one of the operator that leads to them.           *)
LEMMA ShippedIsValid ==
    ASSUME NEW p, p.pool \in [Pools -> Rooms], p.rule \in [Rules -> Ends],
           p.pool["LEGACY"] = None, p.pool["SMART"] = {"FAST"}, p.pool["FAST"] = {},
           p.pool["OWN"] # None => p.pool["OWN"] \subseteq {"SMART", "FAST"},
           \A r \in Rules : p.rule[r] \in {"SMART", "FAST", "DIRECT", None}
                            \/ (p.rule[r] = "OWN" /\ p.pool["OWN"] # None)
    PROVE  Valid(p)
<1>1. /\ "SMART" \in Present(p) /\ "FAST" \in Present(p) /\ "LEGACY" \notin Present(p)
      /\ "OWN" \in Present(p) <=> p.pool["OWN"] # None
    <2>1. {"FAST"} # None /\ {} # None
        <3>1. {"FAST"} \in SUBSET Pools /\ {} \in SUBSET Pools
            BY DEF Pools
        <3> QED
            BY <3>1, NoneIsNothing
    <2> QED
        BY <2>1 DEF Present, Pools
<1>2. \A i \in Present(p) : i \in {"SMART", "FAST", "OWN"}
    BY <1>1 DEF Present, Pools
<1>3. ASSUME NEW i \in Present(p) PROVE p.pool[i] \subseteq Present(p)
    BY <1>1, <1>2
<1>4. ASSUME NEW S \in (SUBSET Present(p)) \ {{}} PROVE \E i \in S : p.pool[i] \cap S = {}
    <2>1. CASE "FAST" \in S
        BY <2>1
    <2>2. CASE "FAST" \notin S /\ "SMART" \in S
        BY <2>2
    <2>3. CASE "FAST" \notin S /\ "SMART" \notin S
        <3>1. "OWN" \in S /\ S \subseteq {"OWN"}
            BY <1>2, <2>3
        <3>2. p.pool["OWN"] \subseteq {"SMART", "FAST"}
            BY <1>1, <3>1
        <3> QED
            BY <3>1, <3>2
    <2> QED
        BY <2>1, <2>2, <2>3
<1>5. ASSUME NEW r \in Rules PROVE p.rule[r] \in Present(p) \cup {"DIRECT", None}
    BY <1>1
<1> QED
    BY <1>3, <1>4, <1>5 DEF Valid

(* Missing rows of the defaults do not spoil a policy.                       *)
LEMMA DefaultIsValid ==
    ASSUME NEW d, NEW n, d.pool \in [Pools -> Rooms], d.rule \in [Rules -> Ends], Valid(d),
           n.pool = Default(d.pool, Shipped.pool), n.rule = Default(d.rule, Shipped.rule)
    PROVE  Valid(n)
<1>1. n.pool = [i \in Pools |-> IF d.pool[i] # None THEN d.pool[i]
                               ELSE IF i = "SMART" THEN {"FAST"}
                               ELSE IF i = "FAST" THEN {} ELSE None]
    BY ShippedRows DEF Default
<1>2. n.rule = [r \in Rules |-> IF d.rule[r] # None THEN d.rule[r]
                               ELSE IF r = "catch-all" THEN "SMART" ELSE None]
    BY ShippedRows DEF Default
<1>3. {"FAST"} # None /\ {} # None
    <2>1. {"FAST"} \in SUBSET Pools /\ {} \in SUBSET Pools
        BY DEF Pools
    <2> QED
        BY <2>1, NoneIsNothing
<1>4. /\ "SMART" \in Present(n) /\ "FAST" \in Present(n)
      /\ Present(d) \subseteq Present(n)
      /\ \A i \in Present(n) : i \in Present(d) \/ i \in {"SMART", "FAST"}
    BY <1>1, <1>3 DEF Present, Pools
<1>5. \A i \in Present(d) : n.pool[i] = d.pool[i] /\ d.pool[i] \subseteq Present(d)
    BY <1>1 DEF Present, Valid
<1>6. /\ "FAST" \notin Present(d) => n.pool["FAST"] = {}
      /\ "SMART" \notin Present(d) => n.pool["SMART"] = {"FAST"}
    BY <1>1 DEF Present, Pools
<1>7. ASSUME NEW i \in Present(n) PROVE n.pool[i] \subseteq Present(n)
    BY <1>4, <1>5, <1>6
<1>8. ASSUME NEW S \in (SUBSET Present(n)) \ {{}} PROVE \E i \in S : n.pool[i] \cap S = {}
    <2>1. CASE "FAST" \in S /\ "FAST" \notin Present(d)
        BY <2>1, <1>6
    <2>2. CASE ("FAST" \in S => "FAST" \in Present(d)) /\ S \cap Present(d) # {}
        <3> DEFINE T == S \cap Present(d)
        <3>1. PICK i \in T : d.pool[i] \cap T = {}
            BY <2>2 DEF Valid
        <3>2. i \in S /\ n.pool[i] = d.pool[i] /\ d.pool[i] \subseteq Present(d)
            BY <3>1, <1>5
        <3> QED
            BY <3>1, <3>2
    <2>3. CASE ("FAST" \in S => "FAST" \in Present(d)) /\ S \cap Present(d) = {}
        <3>1. S \subseteq {"SMART"} /\ "SMART" \in S /\ "SMART" \notin Present(d)
            BY <2>3, <1>4
        <3>2. n.pool["SMART"] = {"FAST"}
            BY <3>1, <1>6
        <3> QED
            BY <3>1, <3>2
    <2> QED
        BY <2>1, <2>2, <2>3
<1>9. ASSUME NEW r \in Rules PROVE n.rule[r] \in Present(n) \cup {"DIRECT", None}
    <2>1. d.rule[r] \in Present(d) \cup {"DIRECT", None}
        BY DEF Valid
    <2> QED
        BY <2>1, <1>2, <1>4
<1> QED
    BY <1>7, <1>8, <1>9 DEF Valid

(* The first change makes a policy that validates, to which the second does  *)
(* nothing more.                                                             *)
LEMMA SmartIsValid ==
    ASSUME NEW d \in Db, Valid(d)
    PROVE  Valid(SmartAutoPolicy(d)) /\ Valid(DailyRouting(SmartAutoPolicy(d)))
<1> DEFINE n == SmartAutoPolicy(d)
           m == DailyRouting(n)
<1>1. /\ n \in Db
      /\ n.pool = [i \in Pools |-> IF i = "OWN" THEN MovedPool(d.pool[i]) ELSE Shipped.pool[i]]
      /\ n.rule = [r \in Rules |-> IF r = "own" THEN Replaced(d.rule[r]) ELSE Shipped.rule[r]]
    BY SmartRows
<1> HIDE DEF n
<1>2. /\ m \in Db
      /\ m.pool = [i \in Pools |-> IF i = "LEGACY" THEN None ELSE MovedPool(n.pool[i])]
      /\ m.rule = [r \in Rules |-> Replaced(n.rule[r])]
    BY <1>1, DailyRows
<1> HIDE DEF m
<1>3. d.pool["OWN"] \in Rooms /\ d.rule["own"] \in Ends
    BY DEF Db, Pools, Rules
<1>4. /\ n.pool \in [Pools -> Rooms] /\ n.rule \in [Rules -> Ends]
      /\ n.pool["LEGACY"] = None /\ n.pool["SMART"] = {"FAST"} /\ n.pool["FAST"] = {}
      /\ n.pool["OWN"] = MovedPool(d.pool["OWN"])
      /\ n.rule["catch-all"] = "SMART" /\ n.rule["own"] = Replaced(d.rule["own"])
    <2>1. n.pool \in [Pools -> Rooms] /\ n.rule \in [Rules -> Ends]
        BY <1>1 DEF Db
    <2> QED
        BY <2>1, <1>1, ShippedRows DEF Pools, Rules
<1>5. n.pool["OWN"] # None => n.pool["OWN"] \subseteq {"SMART", "FAST"}
    <2> SUFFICES ASSUME n.pool["OWN"] # None PROVE n.pool["OWN"] \subseteq {"SMART", "FAST"}
        OBVIOUS
    <2>1. d.pool["OWN"] # None /\ d.pool["OWN"] \in SUBSET Pools
        BY <1>3, <1>4, PoolMoved DEF Rooms
    <2>2. "OWN" \in Present(d)
        BY <2>1 DEF Present, Pools
    <2>3. "OWN" \notin d.pool["OWN"]
        <3>1. {"OWN"} \in (SUBSET Present(d)) \ {{}}
            BY <2>2
        <3>2. \E i \in {"OWN"} : d.pool[i] \cap {"OWN"} = {}
            BY <3>1 DEF Valid
        <3> QED
            BY <3>2
    <2>4. n.pool["OWN"] = {Replaced(x) : x \in d.pool["OWN"]}
        BY <1>4, <2>1 DEF MovedPool
    <2>5. \A x \in d.pool["OWN"] : Replaced(x) \in {"SMART", "FAST"}
        BY <2>1, <2>3 DEF Replaced, Pools
    <2> QED
        BY <2>4, <2>5
<1>6. ASSUME NEW r \in Rules
      PROVE  n.rule[r] \in {"SMART", "FAST", "DIRECT", None}
             \/ (n.rule[r] = "OWN" /\ n.pool["OWN"] # None)
    <2>1. CASE r = "catch-all"
        BY <2>1, <1>4
    <2>2. CASE r = "own"
        <3>1. d.rule["own"] \in Present(d) \cup {"DIRECT", None}
            BY DEF Valid, Rules
        <3>2. CASE d.rule["own"] = None
            BY <2>2, <3>2, <1>4, ReplacedType
        <3>3. CASE d.rule["own"] = "OWN"
            <4>1. "OWN" \in Present(d)
                BY <3>1, <3>3, NoneIsNothing DEF Targets, Pools
            <4>2. n.pool["OWN"] # None
                BY <4>1, <1>3, <1>4, PoolMoved DEF Present
            <4> QED
                BY <2>2, <3>3, <4>2, <1>4 DEF Replaced
        <3>4. CASE d.rule["own"] \in {"LEGACY", "SMART", "FAST", "DIRECT"}
            BY <2>2, <3>4, <1>4 DEF Replaced
        <3> QED
            BY <3>1, <3>2, <3>3, <3>4 DEF Present, Pools
    <2> QED
        BY <2>1, <2>2 DEF Rules
<1>7. Valid(n)
    BY <1>4, <1>5, <1>6, ShippedIsValid
<1>8. m.pool = n.pool
    <2>1. m.pool["LEGACY"] = n.pool["LEGACY"]
        BY <1>2, <1>4 DEF Pools
    <2>2. {"FAST"} # None /\ {} # None
        <3>1. {"FAST"} \in SUBSET Pools /\ {} \in SUBSET Pools
            BY DEF Pools
        <3> QED
            BY <3>1, NoneIsNothing
    <2>3. MovedPool({"FAST"}) = {"FAST"} /\ MovedPool({}) = {}
        BY <2>2 DEF MovedPool, Replaced
    <2>4. m.pool["SMART"] = n.pool["SMART"] /\ m.pool["FAST"] = n.pool["FAST"]
        BY <1>2, <1>4, <2>3 DEF Pools
    <2>5. m.pool["OWN"] = MovedPool(MovedPool(d.pool["OWN"]))
        BY <1>2, <1>4 DEF Pools
    <2>6. m.pool["OWN"] = n.pool["OWN"]
        BY <1>3, <1>4, <2>5, PoolMoved
    <2>7. \A i \in Pools : m.pool[i] = n.pool[i]
        BY <2>1, <2>4, <2>6 DEF Pools
    <2>8. m.pool \in [Pools -> Rooms]
        BY <1>2 DEF Db
    <2> QED
        BY <1>4, <2>7, <2>8
<1>9. m.rule = n.rule
    <2>1. \A r \in Rules : m.rule[r] = Replaced(n.rule[r])
        BY <1>2
    <2>2. m.rule["catch-all"] = n.rule["catch-all"]
        BY <1>4, <2>1 DEF Rules, Replaced
    <2>3. m.rule["own"] = n.rule["own"]
        BY <1>3, <1>4, <2>1, ReplacedType DEF Rules
    <2>4. m.rule \in [Rules -> Ends]
        BY <1>2 DEF Db
    <2> QED
        BY <1>4, <2>2, <2>3, <2>4 DEF Rules
<1>10. Valid(m)
    BY <1>7, <1>8, <1>9, ValidIsOfRows
<1> QED
    BY <1>7, <1>10 DEF n, m

(* Defaults inserted between the two changes do not spoil the second.        *)
LEMMA DefaultThenDaily ==
    ASSUME NEW d \in Db, NEW n \in Db, Valid(DailyRouting(d)),
           n.pool = Default(d.pool, Shipped.pool), n.rule = Default(d.rule, Shipped.rule)
    PROVE  Valid(DailyRouting(n))
<1> DEFINE e == DailyRouting(d)
           m == DailyRouting(n)
<1>1. /\ e \in Db
      /\ e.pool = [i \in Pools |-> IF i = "LEGACY" THEN None ELSE MovedPool(d.pool[i])]
      /\ e.rule = [r \in Rules |-> Replaced(d.rule[r])]
    BY DailyRows
<1>2. /\ m \in Db
      /\ m.pool = [i \in Pools |-> IF i = "LEGACY" THEN None ELSE MovedPool(n.pool[i])]
      /\ m.rule = [r \in Rules |-> Replaced(n.rule[r])]
    BY DailyRows
<1> HIDE DEF e, m
<1>3. d.pool \in [Pools -> Rooms] /\ d.rule \in [Rules -> Ends]
    BY DEF Db
<1>4. /\ Default(d.pool, Shipped.pool)
             = [i \in Pools |-> IF d.pool[i] = None THEN Shipped.pool[i] ELSE d.pool[i]]
      /\ Default(d.rule, Shipped.rule)
             = [r \in Rules |-> IF d.rule[r] = None THEN Shipped.rule[r] ELSE d.rule[r]]
    BY <1>3 DEF Default
<1>5. e.pool \in [Pools -> Rooms] /\ e.rule \in [Rules -> Ends]
    BY <1>1 DEF Db
<1>6. /\ Default(e.pool, Shipped.pool)
             = [i \in Pools |-> IF e.pool[i] = None THEN Shipped.pool[i] ELSE e.pool[i]]
      /\ Default(e.rule, Shipped.rule)
             = [r \in Rules |-> IF e.rule[r] = None THEN Shipped.rule[r] ELSE e.rule[r]]
    BY <1>5 DEF Default
<1>7. /\ MovedPool({"FAST"}) = {"FAST"} /\ MovedPool({}) = {} /\ MovedPool(None) = None
      /\ Replaced("SMART") = "SMART" /\ Replaced(None) = None
    <2>1. {"FAST"} # None /\ {} # None
        <3>1. {"FAST"} \in SUBSET Pools /\ {} \in SUBSET Pools
            BY DEF Pools
        <3> QED
            BY <3>1, NoneIsNothing
    <2>2. Replaced("SMART") = "SMART" /\ Replaced("FAST") = "FAST"
        BY DEF Replaced
    <2>3. MovedPool({"FAST"}) = {"FAST"} /\ MovedPool({}) = {} /\ MovedPool(None) = None
        BY <2>1, <2>2 DEF MovedPool
    <2> QED
        BY <2>2, <2>3, ReplacedType
<1>8. ASSUME NEW i \in Pools
      PROVE  m.pool[i] = IF e.pool[i] = None THEN Shipped.pool[i] ELSE e.pool[i]
    <2>1. CASE i = "LEGACY"
        BY <2>1, <1>1, <1>2, ShippedRows
    <2>2. CASE i # "LEGACY"
        <3>1. /\ e.pool[i] = MovedPool(d.pool[i]) /\ m.pool[i] = MovedPool(n.pool[i])
              /\ n.pool[i] = IF d.pool[i] = None THEN Shipped.pool[i] ELSE d.pool[i]
            BY <2>2, <1>1, <1>2, <1>4
        <3>2. MovedPool(d.pool[i]) = None <=> d.pool[i] = None
            BY <1>3, PoolMoved
        <3>3. MovedPool(Shipped.pool[i]) = Shipped.pool[i]
            BY <1>7, ShippedRows
        <3> QED
            BY <3>1, <3>2, <3>3
    <2> QED
        BY <2>1, <2>2
<1>9. ASSUME NEW r \in Rules
      PROVE  m.rule[r] = IF e.rule[r] = None THEN Shipped.rule[r] ELSE e.rule[r]
    <2>1. /\ e.rule[r] = Replaced(d.rule[r]) /\ m.rule[r] = Replaced(n.rule[r])
          /\ n.rule[r] = IF d.rule[r] = None THEN Shipped.rule[r] ELSE d.rule[r]
        BY <1>1, <1>2, <1>4
    <2>2. Replaced(d.rule[r]) = None <=> d.rule[r] = None
        BY <1>3, <1>7, ReplacedType, NoneIsNothing DEF Ends
    <2>3. Replaced(Shipped.rule[r]) = Shipped.rule[r]
        BY <1>7, ShippedRows
    <2> QED
        BY <2>1, <2>2, <2>3
<1>10. m.pool = Default(e.pool, Shipped.pool) /\ m.rule = Default(e.rule, Shipped.rule)
    <2>1. m.pool \in [Pools -> Rooms] /\ m.rule \in [Rules -> Ends]
        BY <1>2 DEF Db
    <2> QED
        BY <1>6, <1>8, <1>9, <2>1
<1>11. Valid(e)
    BY DEF e
<1>12. Valid(m)
    BY <1>5, <1>10, <1>11, DefaultIsValid
<1> QED
    BY <1>12 DEF m

-----------------------------------------------------------------------------
(* What is kept *)

LEMMA EverythingType ==
    ASSUME NEW d \in Db
    PROVE  Everything(d) \in Kept
BY DEF Everything, Kept, Db, Adapters

LEMMA EverythingKept ==
    ASSUME NEW d \in Db, "daily" \in d.keys
    PROVE  RowsKept(d, Everything(d))
BY DEF RowsKept, Everything, Upgraded

(* Rows that are looked at and stay are kept.                                *)
LEMMA KeptByRows ==
    ASSUME NEW d \in Db, NEW e \in Db, NEW k \in Kept, RowsKept(d, k),
           "daily" \in d.keys <=> "daily" \in e.keys,
           "daily" \notin d.keys => DOMAIN k.set \subseteq {"own", "custom-direct"},
           \A i \in DOMAIN k.pool : e.pool[i] = d.pool[i],
           \A r \in DOMAIN k.rule : e.rule[r] = d.rule[r],
           \A t \in DOMAIN k.set : e.set[t] = d.set[t],
           k.dns # None => e.dns = d.dns,
           k.setting # None => e.setting = d.setting,
           e.adapter["unknown"] = d.adapter["unknown"]
    PROVE  RowsKept(e, k)
<1>1. CASE "daily" \in d.keys
    BY <1>1 DEF RowsKept, Upgraded
<1>2. CASE "daily" \notin d.keys
    <2> DEFINE x == DailyRouting(d)
               y == DailyRouting(e)
    <2>1. Upgraded(d) = x /\ Upgraded(e) = y
        BY <1>2 DEF Upgraded
    <2>2. /\ x.pool = [i \in Pools |-> IF i = "LEGACY" THEN None ELSE MovedPool(d.pool[i])]
          /\ x.rule = [r \in Rules |-> Replaced(d.rule[r])]
          /\ x.set["own"] = MovedSet(d.set["own"])
          /\ x.set["custom-direct"] = IF d.set["custom-direct"] = None THEN CustomDirect
                        ELSE [target |-> "DIRECT", payload |-> d.set["custom-direct"].payload]
        BY DailyRows
    <2>3. /\ y.pool = [i \in Pools |-> IF i = "LEGACY" THEN None ELSE MovedPool(e.pool[i])]
          /\ y.rule = [r \in Rules |-> Replaced(e.rule[r])]
          /\ y.set["own"] = MovedSet(e.set["own"])
          /\ y.set["custom-direct"] = IF e.set["custom-direct"] = None THEN CustomDirect
                        ELSE [target |-> "DIRECT", payload |-> e.set["custom-direct"].payload]
        BY DailyRows
    <2> HIDE DEF x, y
    <2>4. DOMAIN k.pool \subseteq Pools /\ DOMAIN k.rule \subseteq Rules
        BY DEF Kept, Pools, Rules
    <2>5. \A i \in DOMAIN k.pool : y.pool[i] = x.pool[i]
        BY <2>2, <2>3, <2>4
    <2>6. \A r \in DOMAIN k.rule : y.rule[r] = x.rule[r]
        BY <2>2, <2>3, <2>4
    <2>7. \A t \in DOMAIN k.set : y.set[t] = x.set[t]
        <3> SUFFICES ASSUME NEW t \in DOMAIN k.set PROVE y.set[t] = x.set[t]
            OBVIOUS
        <3>1. t \in {"own", "custom-direct"} /\ e.set[t] = d.set[t]
            BY <1>2
        <3> QED
            BY <3>1, <2>2, <2>3
    <2> QED
        BY <2>1, <2>5, <2>6, <2>7 DEF RowsKept
<1> QED
    BY <1>1, <1>2

(* The first change leaves to the second what it would have done.            *)
LEMMA KeptBySmart ==
    ASSUME NEW d \in Db, NEW e \in Db, NEW k \in Kept, RowsKept(d, k),
           "daily" \notin d.keys, "daily" \notin e.keys,
           DOMAIN k.pool = {"OWN"}, DOMAIN k.rule = {"own"},
           DOMAIN k.set \subseteq {"own", "custom-direct"},
           "custom-direct" \in DOMAIN k.set => d.set["custom-direct"] # None,
           e.pool["OWN"] = MovedPool(d.pool["OWN"]), e.rule["own"] = Replaced(d.rule["own"]),
           \A t \in Sets : e.set[t] = MovedSet(d.set[t]),
           e.dns = d.dns, e.setting = d.setting, e.adapter = d.adapter
    PROVE  RowsKept(e, k)
<1> DEFINE x == DailyRouting(d)
           y == DailyRouting(e)
<1>1. Upgraded(d) = x /\ Upgraded(e) = y
    BY DEF Upgraded
<1>2. /\ x.pool["OWN"] = MovedPool(d.pool["OWN"])
      /\ x.rule["own"] = Replaced(d.rule["own"])
      /\ x.set["own"] = MovedSet(d.set["own"])
      /\ x.set["custom-direct"] = IF d.set["custom-direct"] = None THEN CustomDirect
                    ELSE [target |-> "DIRECT", payload |-> d.set["custom-direct"].payload]
    <2>1. /\ x.pool = [i \in Pools |-> IF i = "LEGACY" THEN None ELSE MovedPool(d.pool[i])]
          /\ x.rule = [r \in Rules |-> Replaced(d.rule[r])]
          /\ x.set["own"] = MovedSet(d.set["own"])
          /\ x.set["custom-direct"] = IF d.set["custom-direct"] = None THEN CustomDirect
                    ELSE [target |-> "DIRECT", payload |-> d.set["custom-direct"].payload]
        BY DailyRows
    <2> HIDE DEF x
    <2> QED
        BY <2>1 DEF Pools, Rules
<1>3. /\ y.pool["OWN"] = MovedPool(e.pool["OWN"])
      /\ y.rule["own"] = Replaced(e.rule["own"])
      /\ y.set["own"] = MovedSet(e.set["own"])
      /\ y.set["custom-direct"] = IF e.set["custom-direct"] = None THEN CustomDirect
                    ELSE [target |-> "DIRECT", payload |-> e.set["custom-direct"].payload]
    <2>1. /\ y.pool = [i \in Pools |-> IF i = "LEGACY" THEN None ELSE MovedPool(e.pool[i])]
          /\ y.rule = [r \in Rules |-> Replaced(e.rule[r])]
          /\ y.set["own"] = MovedSet(e.set["own"])
          /\ y.set["custom-direct"] = IF e.set["custom-direct"] = None THEN CustomDirect
                    ELSE [target |-> "DIRECT", payload |-> e.set["custom-direct"].payload]
        BY DailyRows
    <2> HIDE DEF y
    <2> QED
        BY <2>1 DEF Pools, Rules
<1> HIDE DEF x, y
<1>4. /\ d.pool["OWN"] \in Rooms /\ d.rule["own"] \in Ends
      /\ d.set["own"] \in Choices /\ d.set["custom-direct"] \in Choices
    BY DEF Db, Pools, Rules, Sets
<1>5. y.pool["OWN"] = x.pool["OWN"]
    BY <1>2, <1>3, <1>4, PoolMoved
<1>6. y.rule["own"] = x.rule["own"]
    BY <1>2, <1>3, <1>4, ReplacedType
<1>7. y.set["own"] = x.set["own"]
    BY <1>2, <1>3, <1>4, SetMoved DEF Sets
<1>8. d.set["custom-direct"] # None => y.set["custom-direct"] = x.set["custom-direct"]
    <2> SUFFICES ASSUME d.set["custom-direct"] # None
                 PROVE  y.set["custom-direct"] = x.set["custom-direct"]
        OBVIOUS
    <2>1. e.set["custom-direct"] = MovedSet(d.set["custom-direct"])
        BY DEF Sets
    <2>2. e.set["custom-direct"] # None
        BY <2>1, <1>4, SetMoved
    <2>3. e.set["custom-direct"].payload = d.set["custom-direct"].payload
        <3> DEFINE s == d.set["custom-direct"]
        <3>1. MovedSet(s) = [target |-> Replaced(s.target), payload |-> s.payload]
            BY <1>4, SetMoved
        <3> QED
            BY <2>1, <3>1
    <2> QED
        BY <1>2, <1>3, <2>2, <2>3
<1>9. \A t \in DOMAIN k.set : y.set[t] = x.set[t]
    BY <1>7, <1>8
<1> QED
    BY <1>1, <1>5, <1>6, <1>9 DEF RowsKept

(* The second change. *)
LEMMA KeptByDaily ==
    ASSUME NEW d \in Db, NEW e \in Db, NEW k \in Kept, RowsKept(d, k),
           "daily" \notin d.keys, "daily" \in e.keys,
           e.pool = DailyRouting(d).pool, e.rule = DailyRouting(d).rule,
           e.set = DailyRouting(d).set,
           e.dns = d.dns, e.setting = d.setting, e.adapter = d.adapter
    PROVE  RowsKept(e, k)
<1>1. Upgraded(d) = DailyRouting(d) /\ Upgraded(e) = e
    BY DEF Upgraded
<1> QED
    BY <1>1 DEF RowsKept

-----------------------------------------------------------------------------
(* The databases a start finds *)

LEMMA NewDatabaseOK ==
    /\ NewDatabase \in Db /\ ~NewDatabase.rows /\ NewDatabase.keys = {}
    /\ NewDatabase.recorded = {} /\ NewDatabase.admins = 0 /\ NewDatabase.setting = None
    /\ NewDatabase.dns = None
    /\ NewDatabase.pool = NoPolicy.pool /\ NewDatabase.rule = NoPolicy.rule
    /\ \A t \in Sets : NewDatabase.set[t] = None
<1>1. NewDatabase \in Db
    BY DEF NewDatabase, Db, NoPolicy, NoSets, Value, Adapters, Rooms, Ends, Choices
<1> QED
    BY <1>1 DEF NewDatabase, NoSets

LEMMA NoPolicyIsValid == Valid(NoPolicy)
BY DEF Valid, NoPolicy, Present

LEMMA OldSetsOK ==
    ASSUME NEW p \in Policy, NEW sets \in OldSets(p)
    PROVE  /\ sets \in [Sets -> Choices]
           /\ sets["custom-direct"] # None => sets["custom-direct"].target = "DIRECT"
<1>1. PICK c \in {None, [target |-> "DIRECT", payload |-> "operator"]},
           o \in [target : {"DIRECT", "LEGACY"} \cap ({"DIRECT"} \cup Present(p)),
                  payload : {"operator"}] :
        sets = [NoSets EXCEPT !["custom-direct"] = c, !["own"] = o, !["legacy"] = o]
    BY DEF OldSets
<1>2. c \in Choices /\ o \in Choices
    <2>1. [target |-> "DIRECT", payload |-> "operator"] \in RuleSet
        BY DEF RuleSet, Targets
    <2>2. o \in RuleSet
        BY DEF RuleSet, Targets, Pools
    <2> QED
        BY <2>1, <2>2 DEF Choices
<1>3. sets = [t \in Sets |-> IF t = "custom-direct" THEN c ELSE o]
    BY <1>1 DEF NoSets, Sets
<1>4. sets["custom-direct"] = c
    BY <1>3 DEF Sets
<1> QED
    BY <1>2, <1>3, <1>4

LEMMA OldDatabaseOK ==
    ASSUME NEW past \in Pasts, NEW d \in OldDatabases(past)
    PROVE  /\ d \in Db /\ d.rows /\ d.admins \in 0..1
           /\ 8 \notin d.recorded => d.keys = {}
           /\ "daily" \in d.keys => "smart-auto" \in d.keys
           /\ "smart-auto" \in d.keys => "client-routing" \in d.keys
           /\ Valid(d)
           /\ d.set["custom-direct"] # None => d.set["custom-direct"].target = "DIRECT"
<1> DEFINE v == past.version
           p == IF v < 3 THEN NoPolicy ELSE past.policy
<1>1. /\ v \in 0..12 /\ past.admins \in 0..1 /\ past.policy \in Policy
      /\ Valid(past.policy) /\ past.keys \in OldKeys(v)
    BY ConstantsAssumption DEF ConstantsAssumption
<1>2. PICK sets \in IF v < 3 THEN {NoSets} ELSE OldSets(p) :
        d = [schema |-> Tables \cup (IF v = 0 THEN {} ELSE Columns)
                            \cup Made({i \in 1..12 : Migrations[i].version <= v}),
             recorded |-> 1..v, keys |-> past.keys, rows |-> TRUE,
             admins |-> past.admins, setting |-> "operator",
             dns |-> IF v < 4 THEN None ELSE "operator",
             adapter |-> [a \in {"known", "unknown"} |-> IF v = 0 THEN 0 ELSE 1],
             pool |-> p.pool, rule |-> p.rule, set |-> sets]
    BY DEF OldDatabases
<1>3. NoPolicy \in Policy /\ Valid(NoPolicy)
    BY NoPolicyIsValid DEF NoPolicy, Policy
<1>4. p \in Policy /\ Valid(p)
    BY <1>1, <1>3
<1>5. /\ sets \in [Sets -> Choices]
      /\ sets["custom-direct"] # None => sets["custom-direct"].target = "DIRECT"
    <2>1. CASE v < 3
        BY <1>2, <2>1 DEF NoSets, Choices, Sets
    <2>2. CASE ~(v < 3)
        BY <1>2, <1>4, <2>2, OldSetsOK
    <2> QED
        BY <2>1, <2>2
<1>6. past.keys \in SUBSET Keys /\ (8 \notin 1..v => past.keys = {})
    <2>1. CASE v < 8
        BY <1>1, <2>1 DEF OldKeys
    <2>2. CASE ~(v < 8)
        <3>1. 8 \in 1..v
            BY <1>1, <2>2
        <3> QED
            BY <1>1, <2>2, <3>1 DEF OldKeys, Keys
    <2> QED
        BY <2>1, <2>2
<1>7. /\ "daily" \in past.keys => "smart-auto" \in past.keys
      /\ "smart-auto" \in past.keys => "client-routing" \in past.keys
    BY <1>1 DEF OldKeys, Keys
<1>8. d.schema \in SUBSET Objects /\ 1..v \in SUBSET (1..12)
    <2>1. Made({i \in 1..12 : Migrations[i].version <= v}) \subseteq Objects
        BY MadeIsObjects
    <2>2. 1..v \subseteq 1..12
        BY <1>1
    <2> QED
        BY <1>2, <2>1, <2>2 DEF Objects
<1>9. p.pool \in [Pools -> Rooms] /\ p.rule \in [Rules -> Ends]
    BY <1>4 DEF Policy, Rooms, Ends
<1> HIDE DEF p, v
<1>10. d \in Db
    <2>1. /\ d.adapter \in [Adapters -> Nat] /\ d.dns \in Value /\ d.setting \in Value
          /\ d.admins \in Nat
        BY <1>1, <1>2 DEF Adapters, Value
    <2> QED
        BY <1>2, <1>5, <1>6, <1>8, <1>9, <2>1 DEF Db
<1>11. Valid(d)
    BY <1>2, <1>4, ValidIsOfRows
<1>12. /\ d.rows /\ d.admins \in 0..1 /\ d.recorded = 1..v /\ d.keys = past.keys /\ d.set = sets
    BY <1>1, <1>2
<1> QED
    BY <1>5, <1>6, <1>7, <1>10, <1>11, <1>12

(* What is kept of a database at first. *)
LEMMA OwnRowsKept ==
    ASSUME NEW d \in Db
    PROVE  LET k == OwnRows(d)
           IN  /\ k \in Kept /\ RowsKept(d, k)
               /\ DOMAIN k.pool = {"OWN"} /\ DOMAIN k.rule = {"own"}
               /\ DOMAIN k.set \subseteq {"own", "custom-direct"}
               /\ "custom-direct" \in DOMAIN k.set => d.set["custom-direct"] # None
<1> DEFINE n == Upgraded(d)
           k == OwnRows(d)
<1>1. n \in Db
    BY DailyRows DEF Upgraded
<1>2. k = [pool |-> [i \in {"OWN"} |-> n.pool[i]], rule |-> [r \in {"own"} |-> n.rule[r]],
           set  |-> [t \in {"own"} \cup {c \in {"custom-direct"} : d.set[c] # None} |-> n.set[t]],
           dns |-> d.dns, setting |-> d.setting, unknown |-> d.adapter["unknown"]]
    BY DEF OwnRows, Upgraded
<1> HIDE DEF n
<1>3. k.pool \in [{"OWN"} -> Rooms] /\ k.rule \in [{"own"} -> Ends]
    BY <1>1, <1>2 DEF Db, Pools, Rules
<1>4. k.set \in [{"own"} -> Choices] \cup [{"own", "custom-direct"} -> Choices]
    <2> DEFINE D == {"own"} \cup {c \in {"custom-direct"} : d.set[c] # None}
    <2>1. D = {"own"} \/ D = {"own", "custom-direct"}
        OBVIOUS
    <2>2. \A t \in D : n.set[t] \in Choices
        BY <1>1 DEF Db, Sets
    <2> HIDE DEF D
    <2>3. [t \in D |-> n.set[t]] \in [D -> Choices]
        BY <2>2
    <2>4. k.set = [t \in D |-> n.set[t]]
        BY <1>2 DEF D
    <2> QED
        BY <2>1, <2>3, <2>4
<1>5. d.dns \in Value /\ d.setting \in Value /\ d.adapter["unknown"] \in Nat
    BY DEF Db, Adapters
<1>6. k \in Kept
    BY <1>2, <1>3, <1>4, <1>5 DEF Kept
<1>7. RowsKept(d, k)
    <2>1. Upgraded(d) = n
        BY DEF n
    <2> QED
        BY <1>2, <2>1 DEF RowsKept
<1>8. /\ DOMAIN k.pool = {"OWN"} /\ DOMAIN k.rule = {"own"}
      /\ DOMAIN k.set \subseteq {"own", "custom-direct"}
      /\ "custom-direct" \in DOMAIN k.set => d.set["custom-direct"] # None
    BY <1>2
<1> QED
    BY <1>6, <1>7, <1>8 DEF k

LEMMA ShapeAtFirst ==
    ASSUME Init, db \in Db
    PROVE  ShapeOK
<1>1. kept \in Kept
    BY OwnRowsKept DEF Init
<1>2. /\ pc \in [Starters -> Steps] /\ missing \in [Starters -> SUBSET Columns]
      /\ request \in [Requests -> {"idle", "hashing"}] /\ token \in BOOLEAN
    BY DEF Init, Starters, Steps
<1>3. excepted \in [overlap : BOOLEAN, noDns : BOOLEAN, meddled : BOOLEAN]
    <2> DEFINE a == db.rows /\ db.dns = None
               b == /\ "smart-auto" \in db.keys /\ "daily" \notin db.keys
                    /\ ~Valid(DailyRouting(db))
    <2>1. a \in BOOLEAN /\ b \in BOOLEAN
        OBVIOUS
    <2>2. excepted = [overlap |-> FALSE, noDns |-> a, meddled |-> b]
        BY DEF Init
    <2> HIDE DEF a, b
    <2> QED
        BY <2>1, <2>2
<1>4. left \in [Kinds -> Nat]
    BY ConstantsAssumption DEF Init, ConstantsAssumption
<1> QED
    BY <1>1, <1>2, <1>3, <1>4 DEF ShapeOK

LEMMA InitOK ==
    ASSUME Init
    PROVE  IInv
<1>1. CASE db = NewDatabase
    <2>1. db \in Db /\ db.admins = 0 /\ db.keys = {} /\ db.setting = None /\ ~db.rows
        BY <1>1, NewDatabaseOK
    <2>2. Valid(db)
        BY <1>1, NewDatabaseOK, NoPolicyIsValid, ValidIsOfRows
    <2>3. db.set["custom-direct"] = None
        BY <1>1, NewDatabaseOK DEF Sets
    <2>4. ShapeOK
        BY <2>1, ShapeAtFirst
    <2>5. KeysOK /\ StagesOK /\ OwnerOK
        BY <2>1, NewDatabaseOK DEF Init, KeysOK, StagesOK, StageOK, OwnerOK, Starters,
             Migrated, AfterSettings, AfterSeed, AfterSmart, AfterDaily, Up
    <2>6. DnsOK /\ DirectOK
        BY <1>1, <2>1, <2>3, NewDatabaseOK DEF Init, DnsOK, DirectOK
    <2>7. PolicyOK
        BY <2>1, <2>2 DEF PolicyOK
    <2>8. DomainsOK /\ KeptOK
        BY <2>1, OwnRowsKept DEF Init, DomainsOK, KeptOK
    <2> QED
        BY <2>4, <2>5, <2>6, <2>7, <2>8 DEF IInv
<1>2. CASE db \in UNION {OldDatabases(p) : p \in Pasts}
    <2>1. PICK past \in Pasts : db \in OldDatabases(past)
        BY <1>2
    <2>2. /\ db \in Db /\ db.rows /\ db.admins \in 0..1
          /\ 8 \notin db.recorded => db.keys = {}
          /\ "daily" \in db.keys => "smart-auto" \in db.keys
          /\ "smart-auto" \in db.keys => "client-routing" \in db.keys
          /\ Valid(db)
          /\ db.set["custom-direct"] # None => db.set["custom-direct"].target = "DIRECT"
        BY <2>1, OldDatabaseOK
    <2>4. ShapeOK
        BY <2>2, ShapeAtFirst
    <2>5. KeysOK /\ StagesOK /\ OwnerOK
        BY <2>2 DEF Init, KeysOK, StagesOK, StageOK, OwnerOK, Starters,
             Migrated, AfterSettings, AfterSeed, AfterSmart, AfterDaily, Up
    <2>6. DnsOK /\ DirectOK
        BY <2>2 DEF Init, DnsOK, DirectOK
    <2>7. PolicyOK
        BY <2>2 DEF PolicyOK, Init
    <2>8. DomainsOK /\ KeptOK
        BY <2>2, OwnRowsKept DEF Init, DomainsOK, KeptOK
    <2> QED
        BY <2>4, <2>5, <2>6, <2>7, <2>8 DEF IInv
<1> QED
    BY <1>1, <1>2 DEF Init

-----------------------------------------------------------------------------
(* The rows after each step *)

(* Nothing happens to the rows, except that they may be noted.               *)
Quiet ==
    /\ db'.keys = db.keys /\ db'.recorded = db.recorded /\ db'.rows = db.rows
    /\ db'.admins = db.admins /\ db'.setting = db.setting /\ db'.dns = db.dns
    /\ db'.pool = db.pool /\ db'.rule = db.rule /\ db'.set = db.set
    /\ db'.adapter["unknown"] = db.adapter["unknown"]
    /\ excepted' = excepted
    /\ kept' = kept \/ (pc["panel"] = "up" /\ kept' = Everything(db))

QuietStep ==
    \/ UNCHANGED vars
    \/ \E s \in Starters :
          \/ CreateTables(s) \/ ReadColumns(s) \/ AddColumn(s) \/ MigrateAdapterStates(s)
          \/ CheckSeeded(s) \/ CheckSmartAuto(s) \/ CheckDaily(s) \/ CountAdmins(s)
          \/ Crash(s)
    \/ StartPanel \/ RunTool
    \/ \E r \in Requests : SubmitSetup(r)

Write ==
    \/ \E s \in Starters :
          \/ RunMigrations(s) \/ EnsureSettings(s)
          \/ SeedRuleSets(s) \/ SeedClientPolicy(s) \/ SeedDnsPolicy(s) \/ MarkSeeded(s)
          \/ EnsureSmartAuto(s) \/ EnsureDaily(s)
    \/ SavePolicy \/ SaveDnsPolicy \/ SaveCustomDirect \/ DeleteRuleSet
    \/ \E r \in Requests : CreateFirstAdmin(r)

LEMMA StepKinds ==
    ASSUME [Next]_vars
    PROVE  QuietStep \/ Write
BY DEF Next, Step, QuietStep, Write

LEMMA QuietSteps ==
    ASSUME IInv, QuietStep
    PROVE  Quiet /\ db' \in Db
<1> USE DEF IInv
<1>0. db \in Db
    BY DEF ShapeOK
<1>1. CASE UNCHANGED vars
    BY <1>0, <1>1 DEF vars, Quiet
<1>2. ASSUME NEW s \in Starters, CreateTables(s) PROVE Quiet /\ db' \in Db
    <2> DEFINE more == Tables \cup (IF "protocol_profiles" \in db.schema THEN {} ELSE Columns)
    <2>1. db' = [db EXCEPT !.schema = @ \cup more]
        BY <1>2 DEF CreateTables
    <2>2. more \subseteq Objects
        BY DEF Objects
    <2> HIDE DEF more
    <2>3. db.schema \cup more \in SUBSET Objects
        BY <1>0, <2>2 DEF Db
    <2> QED
        BY <1>0, <1>2, <2>1, <2>3 DEF CreateTables, Quiet, Db
<1>3. ASSUME NEW s \in Starters, AddColumn(s) PROVE Quiet /\ db' \in Db
    <2>1. CASE db' = db
        BY <1>0, <1>3, <2>1 DEF AddColumn, Quiet
    <2>2. CASE db' # db
        <3>1. PICK c \in missing[s] : db' = [db EXCEPT !.schema = @ \cup {c}]
            BY <1>3, <2>2 DEF AddColumn
        <3>2. c \in Objects
            BY DEF ShapeOK, Objects
        <3>3. db.schema \cup {c} \in SUBSET Objects
            BY <1>0, <3>2 DEF Db
        <3> QED
            BY <1>0, <1>3, <3>1, <3>3 DEF AddColumn, Quiet, Db
    <2> QED
        BY <2>1, <2>2
<1>4. ASSUME NEW s \in Starters, MigrateAdapterStates(s) PROVE Quiet /\ db' \in Db
    <2> DEFINE a == [db.adapter EXCEPT !["known"] = IF @ = 1 THEN 2 ELSE @]
    <2>1. db.adapter \in [Adapters -> Nat] /\ db.adapter["known"] \in Nat
        BY <1>0 DEF Db, Adapters
    <2>2. a \in [Adapters -> Nat] /\ a["unknown"] = db.adapter["unknown"]
        BY <2>1 DEF Adapters
    <2>3. db' = [db EXCEPT !.adapter = a]
        BY <1>0, <1>4 DEF MigrateAdapterStates, Db
    <2> HIDE DEF a
    <2> QED
        BY <1>0, <1>4, <2>2, <2>3 DEF MigrateAdapterStates, Quiet, Db
<1>5. ASSUME NEW s \in Starters,
             ReadColumns(s) \/ CheckSeeded(s) \/ CheckSmartAuto(s) \/ CheckDaily(s) \/ CountAdmins(s)
      PROVE  Quiet /\ db' \in Db
    BY <1>0, <1>5 DEF ReadColumns, CheckSeeded, CheckSmartAuto, CheckDaily, Check, CountAdmins, Quiet
<1>6. ASSUME NEW s \in Starters, Crash(s) PROVE Quiet /\ db' \in Db
    <2>1. pc[s] = "up" => pc["panel"] = "up"
        BY DEF OwnerOK, Starters
    <2> QED
        BY <1>0, <1>6, <2>1 DEF Crash, Quiet
<1>7. CASE StartPanel \/ RunTool
    BY <1>0, <1>7 DEF StartPanel, RunTool, Quiet
<1>8. ASSUME NEW r \in Requests, SubmitSetup(r) PROVE Quiet /\ db' \in Db
    BY <1>0, <1>8 DEF SubmitSetup, Quiet
<1> QED
    BY <1>1, <1>2, <1>3, <1>4, <1>5, <1>6, <1>7, <1>8 DEF QuietStep

LEMMA DefaultType ==
    ASSUME NEW d \in Db
    PROVE  /\ Default(d.pool, Shipped.pool) \in [Pools -> Rooms]
           /\ Default(d.rule, Shipped.rule) \in [Rules -> Ends]
           /\ Default(d.pool, Shipped.pool)["OWN"] = d.pool["OWN"]
           /\ Default(d.rule, Shipped.rule)["own"] = d.rule["own"]
<1>1. d.pool \in [Pools -> Rooms] /\ d.rule \in [Rules -> Ends]
    BY DEF Db
<1>2. Shipped.pool \in [Pools -> Rooms] /\ Shipped.rule \in [Rules -> Ends]
    BY ShippedRows DEF Rooms, Ends, Pools, Rules, Targets
<1>3. /\ Default(d.pool, Shipped.pool)
             = [i \in Pools |-> IF d.pool[i] = None THEN Shipped.pool[i] ELSE d.pool[i]]
      /\ Default(d.rule, Shipped.rule)
             = [r \in Rules |-> IF d.rule[r] = None THEN Shipped.rule[r] ELSE d.rule[r]]
    BY <1>1 DEF Default
<1>4. Shipped.pool["OWN"] = None /\ Shipped.rule["own"] = None
    BY ShippedRows DEF Pools, Rules
<1> QED
    BY <1>1, <1>2, <1>3, <1>4 DEF Pools, Rules

LEMMA WriteTypes ==
    ASSUME IInv, Write
    PROVE  db' \in Db
<1>0. db \in Db
    BY DEF IInv, ShapeOK
<1>1. ASSUME NEW s \in Starters, RunMigrations(s) PROVE db' \in Db
    <2>1. CASE db' = db
        BY <1>0, <2>1
    <2>2. CASE db' # db
        <3> DEFINE m == Made(Pending(db.recorded))
        <3>1. db' = [db EXCEPT !.schema = @ \cup m, !.recorded = 1..12, !.keys = KeysOfExisting]
            BY <1>1, <2>2 DEF RunMigrations
        <3>2. m \subseteq Objects
            BY MadeIsObjects DEF Pending
        <3>3. KeysOfExisting \in SUBSET Keys
            BY <1>0 DEF KeysOfExisting, Keys, Db
        <3> HIDE DEF m
        <3>4. db.schema \cup m \in SUBSET Objects
            BY <1>0, <3>2 DEF Db
        <3> QED
            BY <1>0, <3>1, <3>3, <3>4 DEF Db
    <2> QED
        BY <2>1, <2>2
<1>2. ASSUME NEW s \in Starters, EnsureSettings(s) PROVE db' \in Db
    BY <1>0, <1>2 DEF EnsureSettings, Db, Value
<1>3. ASSUME NEW s \in Starters, SeedRuleSets(s) PROVE db' \in Db
    <2>1. CustomDirect \in Choices
        BY DEF CustomDirect, Choices, RuleSet, Targets
    <2> DEFINE t == [db.set EXCEPT !["custom-direct"] = IF @ = None THEN CustomDirect ELSE @]
    <2>2. t \in [Sets -> Choices]
        BY <1>0, <2>1 DEF Db, Sets
    <2>3. db' = [db EXCEPT !.set = t]
        BY <1>0, <1>3 DEF SeedRuleSets, Db
    <2> HIDE DEF t
    <2> QED
        BY <1>0, <2>2, <2>3 DEF Db
<1>4. ASSUME NEW s \in Starters, SeedClientPolicy(s) PROVE db' \in Db
    <2> DEFINE p == Default(db.pool, Shipped.pool)
               q == Default(db.rule, Shipped.rule)
    <2>1. db' = [db EXCEPT !.pool = p, !.rule = q]
        BY <1>4 DEF SeedClientPolicy
    <2>2. p \in [Pools -> Rooms] /\ q \in [Rules -> Ends]
        BY <1>0, DefaultType
    <2> HIDE DEF p, q
    <2> QED
        BY <1>0, <2>1, <2>2 DEF Db
<1>5. ASSUME NEW s \in Starters, SeedDnsPolicy(s) PROVE db' \in Db
    BY <1>0, <1>5 DEF SeedDnsPolicy, Db, Value
<1>6. ASSUME NEW s \in Starters, MarkSeeded(s) PROVE db' \in Db
    BY <1>0, <1>6 DEF MarkSeeded, Db, Keys
<1>7. ASSUME NEW s \in Starters, EnsureSmartAuto(s) PROVE db' \in Db
    <2> DEFINE n == SmartAutoPolicy(db)
    <2>1. n \in Db
        BY <1>0, SmartRows
    <2>2. db' = db \/ db' = [n EXCEPT !.keys = @ \cup {"smart-auto"}]
        BY <1>7 DEF EnsureSmartAuto, OneTime
    <2> HIDE DEF n
    <2> QED
        BY <1>0, <2>1, <2>2 DEF Db, Keys
<1>8. ASSUME NEW s \in Starters, EnsureDaily(s) PROVE db' \in Db
    <2> DEFINE n == DailyRouting(db)
    <2>1. n \in Db
        BY <1>0, DailyRows
    <2>2. db' = db \/ db' = [n EXCEPT !.keys = @ \cup {"daily"}]
        BY <1>8 DEF EnsureDaily, OneTime
    <2> HIDE DEF n
    <2> QED
        BY <1>0, <2>1, <2>2 DEF Db, Keys
<1>9. CASE SavePolicy
    <2>1. PICK p \in OldPolicies : db' = [db EXCEPT !.pool = p.pool, !.rule = p.rule]
        BY <1>9 DEF SavePolicy
    <2>2. p.pool \in [Pools -> Rooms] /\ p.rule \in [Rules -> Ends]
        BY ConstantsAssumption DEF ConstantsAssumption, Policy, Rooms, Ends
    <2> QED
        BY <1>0, <2>1, <2>2 DEF Db
<1>10. CASE SaveDnsPolicy
    BY <1>0, <1>10 DEF SaveDnsPolicy, Db, Value
<1>11. CASE SaveCustomDirect
    <2> DEFINE c == [db.set["custom-direct"] EXCEPT !.payload = "operator"]
               t == [db.set EXCEPT !["custom-direct"] = c]
    <2>1. db' = [db EXCEPT !.set = t]
        BY <1>0, <1>11 DEF SaveCustomDirect, Db
    <2>2. db.set["custom-direct"] \in RuleSet
        BY <1>0, <1>11 DEF SaveCustomDirect, Db, Sets, Choices
    <2>3. c \in Choices
        BY <2>2 DEF RuleSet, Choices
    <2> HIDE DEF c
    <2>4. t \in [Sets -> Choices]
        BY <1>0, <2>3 DEF Db
    <2> HIDE DEF t
    <2> QED
        BY <1>0, <2>1, <2>4 DEF Db
<1>12. CASE DeleteRuleSet
    <2>1. PICK t \in Sets : db' = [db EXCEPT !.set[t] = None]
        BY <1>12 DEF DeleteRuleSet
    <2> DEFINE w == [db.set EXCEPT ![t] = None]
    <2>2. w \in [Sets -> Choices] /\ db' = [db EXCEPT !.set = w]
        BY <1>0, <2>1 DEF Db, Choices
    <2> HIDE DEF w
    <2> QED
        BY <1>0, <2>2 DEF Db
<1>13. ASSUME NEW r \in Requests, CreateFirstAdmin(r) PROVE db' \in Db
    BY <1>0, <1>13 DEF CreateFirstAdmin, Db
<1> QED
    BY <1>1, <1>2, <1>3, <1>4, <1>5, <1>6, <1>7, <1>8, <1>9, <1>10, <1>11, <1>12, <1>13 DEF Write

LEMMA DbNext ==
    ASSUME IInv, [Next]_vars
    PROVE  db' \in Db
BY StepKinds, QuietSteps, WriteTypes

-----------------------------------------------------------------------------
(* Shapes *)

LEMMA StepNames ==
    /\ AfterDaily = {"up", "admins"}
    /\ AfterSmart = {"up", "admins", "daily?", "daily"}
    /\ AfterSeed  = {"up", "admins", "daily?", "daily", "smart?", "smart"}
    /\ AfterSettings = {"up", "admins", "daily?", "daily", "smart?", "smart",
                         "adapters", "seed", "sets", "policy", "dns", "mark"}
    /\ Migrated = AfterSettings \cup {"settings"}
    /\ Steps = {"up", "admins", "daily?", "daily", "smart?", "smart",
                 "adapters", "seed", "sets", "policy", "dns", "mark", "settings",
                 "down", "tables", "columns", "alter", "migrate"}
BY DEF Up, AfterDaily, AfterSmart, AfterSeed, AfterSettings, Migrated, Steps

(* The step of the starter that moves. *)
LEMMA PcNext ==
    ASSUME IInv, [Next]_vars
    PROVE  pc' \in [Starters -> Steps]
<1>0. pc \in [Starters -> Steps]
    BY DEF IInv, ShapeOK
<1>1. \A s \in Starters : \A x \in Steps : [pc EXCEPT ![s] = x] \in [Starters -> Steps]
    BY <1>0
<1> USE StepNames
<1>2. CASE pc' = pc
    BY <1>0, <1>2
<1>3. ASSUME NEW s \in Starters, CreateTables(s) PROVE pc' \in [Starters -> Steps]
    BY <1>0, <1>1, <1>3 DEF CreateTables, Go
<1>4. ASSUME NEW s \in Starters, ReadColumns(s) PROVE pc' \in [Starters -> Steps]
    BY <1>0, <1>1, <1>4 DEF ReadColumns, Go
<1>5. ASSUME NEW s \in Starters, AddColumn(s) PROVE pc' \in [Starters -> Steps]
    BY <1>0, <1>1, <1>5 DEF AddColumn, Go
<1>6. ASSUME NEW s \in Starters, RunMigrations(s) PROVE pc' \in [Starters -> Steps]
    BY <1>0, <1>1, <1>6 DEF RunMigrations, Go
<1>7. ASSUME NEW s \in Starters, EnsureSettings(s) PROVE pc' \in [Starters -> Steps]
    BY <1>0, <1>1, <1>7 DEF EnsureSettings, Go
<1>8. ASSUME NEW s \in Starters, MigrateAdapterStates(s) PROVE pc' \in [Starters -> Steps]
    BY <1>0, <1>1, <1>8 DEF MigrateAdapterStates, Go
<1>9. ASSUME NEW s \in Starters, CheckSeeded(s) PROVE pc' \in [Starters -> Steps]
    BY <1>0, <1>1, <1>9 DEF CheckSeeded, Check, Go
<1>10. ASSUME NEW s \in Starters, SeedRuleSets(s) PROVE pc' \in [Starters -> Steps]
    BY <1>0, <1>1, <1>10 DEF SeedRuleSets, Seed, Go
<1>11. ASSUME NEW s \in Starters, SeedClientPolicy(s) PROVE pc' \in [Starters -> Steps]
    BY <1>0, <1>1, <1>11 DEF SeedClientPolicy, Seed, Go
<1>12. ASSUME NEW s \in Starters, SeedDnsPolicy(s) PROVE pc' \in [Starters -> Steps]
    BY <1>0, <1>1, <1>12 DEF SeedDnsPolicy, Seed, Go
<1>13. ASSUME NEW s \in Starters, MarkSeeded(s) PROVE pc' \in [Starters -> Steps]
    BY <1>0, <1>1, <1>13 DEF MarkSeeded, Go
<1>14. ASSUME NEW s \in Starters, CheckSmartAuto(s) PROVE pc' \in [Starters -> Steps]
    BY <1>0, <1>1, <1>14 DEF CheckSmartAuto, Check, Go
<1>15. ASSUME NEW s \in Starters, EnsureSmartAuto(s) PROVE pc' \in [Starters -> Steps]
    BY <1>0, <1>1, <1>15 DEF EnsureSmartAuto, OneTime, Go
<1>16. ASSUME NEW s \in Starters, CheckDaily(s) PROVE pc' \in [Starters -> Steps]
    BY <1>0, <1>1, <1>16 DEF CheckDaily, Check, Go
<1>17. ASSUME NEW s \in Starters, EnsureDaily(s) PROVE pc' \in [Starters -> Steps]
    BY <1>0, <1>1, <1>17 DEF EnsureDaily, OneTime, Go
<1>18. ASSUME NEW s \in Starters, CountAdmins(s) PROVE pc' \in [Starters -> Steps]
    BY <1>0, <1>1, <1>18 DEF CountAdmins, Go
<1>19. ASSUME NEW s \in Starters, Crash(s) PROVE pc' \in [Starters -> Steps]
    BY <1>0, <1>1, <1>19 DEF Crash, Spend, Go
<1>20. CASE StartPanel \/ RunTool
    BY <1>1, <1>20 DEF StartPanel, RunTool, Go, Starters
<1>21. CASE \/ SavePolicy \/ SaveDnsPolicy \/ SaveCustomDirect \/ DeleteRuleSet
          \/ (\E r \in Requests : SubmitSetup(r) \/ CreateFirstAdmin(r)) \/ UNCHANGED vars
    BY <1>2, <1>21 DEF SavePolicy, SaveDnsPolicy, SaveCustomDirect, DeleteRuleSet,
         SubmitSetup, CreateFirstAdmin, vars
<1> QED
    BY <1>2, <1>3, <1>4, <1>5, <1>6, <1>7, <1>8, <1>9, <1>10, <1>11, <1>12, <1>13, <1>14, <1>15, <1>16, <1>17, <1>18, <1>19, <1>20, <1>21 DEF Next, Step

LEMMA RestOfShape ==
    ASSUME IInv, [Next]_vars
    PROVE  /\ missing' \in [Starters -> SUBSET Columns]
           /\ request' \in [Requests -> {"idle", "hashing"}]
           /\ token' \in BOOLEAN
           /\ left' \in [Kinds -> Nat]
<1> DEFINE Rest == /\ missing' \in [Starters -> SUBSET Columns]
                   /\ request' \in [Requests -> {"idle", "hashing"}]
                   /\ token' \in BOOLEAN
                   /\ left' \in [Kinds -> Nat]
<1>0. /\ missing \in [Starters -> SUBSET Columns]
      /\ request \in [Requests -> {"idle", "hashing"}]
      /\ token \in BOOLEAN
      /\ left \in [Kinds -> Nat]
    BY DEF IInv, ShapeOK
<1>1. ASSUME NEW k \in Kinds, Spend(k) PROVE left' \in [Kinds -> Nat]
    BY <1>0, <1>1 DEF Spend
<1>2. CASE UNCHANGED <<missing, request, token, left>>
    BY <1>0, <1>2
<1>3. ASSUME NEW s \in Starters,
             CreateTables(s) \/ RunMigrations(s) \/ EnsureSettings(s) \/ MigrateAdapterStates(s) \/ CheckSeeded(s)
             \/ SeedRuleSets(s) \/ SeedClientPolicy(s) \/ SeedDnsPolicy(s) \/ MarkSeeded(s) \/ CheckSmartAuto(s)
             \/ EnsureSmartAuto(s) \/ CheckDaily(s) \/ EnsureDaily(s) \/ CountAdmins(s)
      PROVE  Rest
    BY <1>2, <1>3 DEF CreateTables, RunMigrations, EnsureSettings, MigrateAdapterStates, CheckSeeded, SeedRuleSets, SeedClientPolicy, SeedDnsPolicy, MarkSeeded, CheckSmartAuto, EnsureSmartAuto, CheckDaily, EnsureDaily, CountAdmins, Check, Seed, OneTime
<1>4. ASSUME NEW s \in Starters, ReadColumns(s) PROVE Rest
    BY <1>0, <1>4 DEF ReadColumns
<1>5. ASSUME NEW s \in Starters, AddColumn(s) PROVE Rest
    BY <1>0, <1>5 DEF AddColumn
<1>6. ASSUME NEW s \in Starters, Crash(s) PROVE Rest
    <2>1. left' \in [Kinds -> Nat]
        BY <1>1, <1>6 DEF Crash, Kinds
    <2> QED
        BY <1>0, <1>6, <2>1 DEF Crash
<1>7. CASE StartPanel
    BY <1>0, <1>7 DEF StartPanel
<1>8. CASE RunTool \/ SavePolicy \/ SaveDnsPolicy \/ SaveCustomDirect \/ DeleteRuleSet
    <2>1. left' \in [Kinds -> Nat]
        BY <1>1, <1>8 DEF RunTool, SavePolicy, SaveDnsPolicy, SaveCustomDirect, DeleteRuleSet, Kinds
    <2> QED
        BY <1>0, <1>8, <2>1 DEF RunTool, SavePolicy, SaveDnsPolicy, SaveCustomDirect, DeleteRuleSet
<1>9. ASSUME NEW r \in Requests, SubmitSetup(r) PROVE Rest
    <2>1. left' \in [Kinds -> Nat]
        BY <1>1, <1>9 DEF SubmitSetup, Kinds
    <2> QED
        BY <1>0, <1>9, <2>1 DEF SubmitSetup
<1>10. ASSUME NEW r \in Requests, CreateFirstAdmin(r) PROVE Rest
    BY <1>0, <1>10 DEF CreateFirstAdmin
<1>11. CASE UNCHANGED vars
    BY <1>2, <1>11 DEF vars
<1> QED
    BY <1>3, <1>4, <1>5, <1>6, <1>7, <1>8, <1>9, <1>10, <1>11 DEF Next, Step

(* What is noted of a database is noted in whole.                            *)
LEMMA HistoryNext ==
    ASSUME IInv, [Next]_vars
    PROVE  /\ kept' \in Kept
           /\ excepted' \in [overlap : BOOLEAN, noDns : BOOLEAN, meddled : BOOLEAN]
           /\ excepted'.noDns = excepted.noDns /\ excepted'.meddled = excepted.meddled
<1> DEFINE E == [overlap : BOOLEAN, noDns : BOOLEAN, meddled : BOOLEAN]
<1>0. kept \in Kept /\ excepted \in E /\ db \in Db /\ db' \in Db
    BY DbNext DEF IInv, ShapeOK
<1>1. Everything(db) \in Kept /\ Everything(db') \in Kept
    BY <1>0, EverythingType
<1>2. CASE QuietStep
    <2>1. Quiet
        BY <1>2, QuietSteps
    <2> QED
        BY <1>0, <1>1, <2>1 DEF Quiet
<1>3. ASSUME NEW s \in Starters, SeedRuleSets(s) \/ SeedClientPolicy(s) \/ SeedDnsPolicy(s)
      PROVE  /\ kept' = kept /\ excepted' \in E
             /\ excepted'.noDns = excepted.noDns /\ excepted'.meddled = excepted.meddled
    <2> DEFINE o == excepted.overlap \/ "client-routing" \in db.keys
    <2>1. kept' = kept /\ excepted' = [excepted EXCEPT !.overlap = o]
        BY <1>3 DEF SeedRuleSets, SeedClientPolicy, SeedDnsPolicy, Seed
    <2>2. o \in BOOLEAN
        BY <1>0
    <2> HIDE DEF o
    <2> QED
        BY <1>0, <2>1, <2>2
<1>4. ASSUME NEW s \in Starters,
             \/ RunMigrations(s) \/ EnsureSettings(s) \/ MarkSeeded(s)
             \/ EnsureSmartAuto(s) \/ EnsureDaily(s)
      PROVE  kept' = kept /\ excepted' = excepted
    BY <1>4 DEF RunMigrations, EnsureSettings, MarkSeeded, EnsureSmartAuto, EnsureDaily, OneTime
<1>5. CASE SavePolicy \/ SaveDnsPolicy \/ SaveCustomDirect \/ DeleteRuleSet
    <2>1. kept' = Everything(db') /\ excepted' = excepted
        BY <1>5 DEF SavePolicy, SaveDnsPolicy, SaveCustomDirect, DeleteRuleSet
    <2> QED
        BY <1>0, <1>1, <2>1
<1>6. ASSUME NEW r \in Requests, CreateFirstAdmin(r) PROVE kept' = kept /\ excepted' = excepted
    BY <1>6 DEF CreateFirstAdmin
<1> QED
    BY <1>0, <1>2, <1>3, <1>4, <1>5, <1>6, StepKinds DEF Write

LEMMA ShapeNext ==
    ASSUME IInv, [Next]_vars
    PROVE  ShapeOK'
BY DbNext, PcNext, RestOfShape, HistoryNext DEF ShapeOK

-----------------------------------------------------------------------------
(* Keys and stages *)

(* What a row or a key of the database becomes in each step that writes.     *)
LEMMA MigrationRows ==
    ASSUME IInv, NEW s \in Starters, RunMigrations(s)
    PROVE  /\ db'.pool = db.pool /\ db'.rule = db.rule /\ db'.set = db.set
           /\ db'.dns = db.dns /\ db'.setting = db.setting /\ db'.admins = db.admins
           /\ db'.rows = db.rows /\ db'.adapter = db.adapter
           /\ kept' = kept /\ excepted' = excepted
           /\ \/ db' = db /\ pc'[s] = "down"
              \/ db'.recorded = 1..12 /\ db'.keys = KeysOfExisting /\ pc'[s] = "settings"
<1>0. db \in Db /\ pc \in [Starters -> Steps]
    BY DEF IInv, ShapeOK
<1>1. CASE MigrationsSucceed(db.schema, db.recorded)
    <2> DEFINE m == Made(Pending(db.recorded))
    <2>1. db' = [db EXCEPT !.schema = @ \cup m, !.recorded = 1..12, !.keys = KeysOfExisting]
          /\ pc'[s] = "settings" /\ kept' = kept /\ excepted' = excepted
        BY <1>0, <1>1 DEF RunMigrations, Go
    <2> HIDE DEF m
    <2> QED
        BY <1>0, <2>1 DEF Db
<1>2. CASE ~MigrationsSucceed(db.schema, db.recorded)
    BY <1>0, <1>2 DEF RunMigrations, Go
<1> QED
    BY <1>1, <1>2

(* The keys that the migrations leave.                                       *)
LEMMA MigratedKeys ==
    ASSUME IInv
    PROVE  /\ db.keys \subseteq KeysOfExisting
           /\ KeysOfExisting \subseteq db.keys \cup {"client-routing"}
BY DEF KeysOfExisting, IInv, KeysOK

LEMMA SmartStep ==
    ASSUME IInv, NEW s \in Starters, EnsureSmartAuto(s)
    PROVE  \/ Quiet /\ pc'[s] = "down" /\ db' = db
           \/ /\ pc[s] = "smart" /\ pc'[s] = "daily?"
              /\ "smart-auto" \notin db.keys /\ db'.keys = db.keys \cup {"smart-auto"}
              /\ LET n == SmartAutoPolicy(db)
                 IN  /\ db'.pool = n.pool /\ db'.rule = n.rule
                     /\ \A t \in Sets : db'.set[t] = MovedSet(db.set[t])
              /\ db'.recorded = db.recorded /\ db'.rows = db.rows /\ db'.admins = db.admins
              /\ db'.dns = db.dns /\ db'.setting = db.setting /\ db'.adapter = db.adapter
              /\ kept' = kept /\ excepted' = excepted
<1>0. db \in Db /\ pc \in [Starters -> Steps]
    BY DEF IInv, ShapeOK
<1>1. CASE "smart-auto" \in db.keys
    BY <1>0, <1>1 DEF EnsureSmartAuto, OneTime, Go, Quiet
<1>2. CASE "smart-auto" \notin db.keys
    <2> DEFINE n == SmartAutoPolicy(db)
    <2>1. /\ n \in Db /\ n.set = [t \in Sets |-> MovedSet(db.set[t])]
          /\ n.keys = db.keys /\ n.recorded = db.recorded /\ n.rows = db.rows
          /\ n.admins = db.admins /\ n.dns = db.dns /\ n.setting = db.setting
          /\ n.adapter = db.adapter
        BY <1>0, SmartRows
    <2>2. /\ db' = [n EXCEPT !.keys = @ \cup {"smart-auto"}]
          /\ pc[s] = "smart" /\ pc'[s] = "daily?" /\ kept' = kept /\ excepted' = excepted
        BY <1>0, <1>2 DEF EnsureSmartAuto, OneTime, Go
    <2> HIDE DEF n
    <2>3. /\ db'.keys = n.keys \cup {"smart-auto"} /\ db'.pool = n.pool /\ db'.rule = n.rule
          /\ db'.set = n.set /\ db'.recorded = n.recorded /\ db'.rows = n.rows
          /\ db'.admins = n.admins /\ db'.dns = n.dns /\ db'.setting = n.setting
          /\ db'.adapter = n.adapter
        BY <2>1, <2>2 DEF Db
    <2>4. \A t \in Sets : db'.set[t] = MovedSet(db.set[t])
        BY <2>1, <2>3
    <2> QED
        BY <1>2, <2>1, <2>2, <2>3, <2>4 DEF n
<1> QED
    BY <1>1, <1>2

LEMMA DailyStep ==
    ASSUME IInv, NEW s \in Starters, EnsureDaily(s)
    PROVE  \/ Quiet /\ pc'[s] = "down" /\ db' = db
           \/ /\ pc[s] = "daily" /\ pc'[s] = "admins"
              /\ "daily" \notin db.keys /\ db'.keys = db.keys \cup {"daily"}
              /\ LET n == DailyRouting(db)
                 IN  db'.pool = n.pool /\ db'.rule = n.rule /\ db'.set = n.set
              /\ db'.recorded = db.recorded /\ db'.rows = db.rows /\ db'.admins = db.admins
              /\ db'.dns = db.dns /\ db'.setting = db.setting /\ db'.adapter = db.adapter
              /\ kept' = kept /\ excepted' = excepted
<1>0. db \in Db /\ pc \in [Starters -> Steps]
    BY DEF IInv, ShapeOK
<1>1. CASE "daily" \in db.keys
    BY <1>0, <1>1 DEF EnsureDaily, OneTime, Go, Quiet
<1>2. CASE "daily" \notin db.keys
    <2> DEFINE n == DailyRouting(db)
    <2>1. /\ n \in Db
          /\ n.keys = db.keys /\ n.recorded = db.recorded /\ n.rows = db.rows
          /\ n.admins = db.admins /\ n.dns = db.dns /\ n.setting = db.setting
          /\ n.adapter = db.adapter
        BY <1>0, DailyRows
    <2>2. /\ db' = [n EXCEPT !.keys = @ \cup {"daily"}]
          /\ pc[s] = "daily" /\ pc'[s] = "admins" /\ kept' = kept /\ excepted' = excepted
        BY <1>0, <1>2 DEF EnsureDaily, OneTime, Go
    <2> HIDE DEF n
    <2>3. /\ db'.keys = n.keys \cup {"daily"} /\ db'.pool = n.pool /\ db'.rule = n.rule
          /\ db'.set = n.set /\ db'.recorded = n.recorded /\ db'.rows = n.rows
          /\ db'.admins = n.admins /\ db'.dns = n.dns /\ db'.setting = n.setting
          /\ db'.adapter = n.adapter
        BY <2>1, <2>2 DEF Db
    <2> QED
        BY <1>2, <2>1, <2>2, <2>3 DEF n
<1> QED
    BY <1>1, <1>2

(* Everything else that writes. *)
SmallWrite ==
    \/ \E s \in Starters :
          \/ EnsureSettings(s) \/ SeedRuleSets(s) \/ SeedClientPolicy(s) \/ SeedDnsPolicy(s)
          \/ MarkSeeded(s)
    \/ SavePolicy \/ SaveDnsPolicy \/ SaveCustomDirect \/ DeleteRuleSet
    \/ \E r \in Requests : CreateFirstAdmin(r)

LEMMA SmallWrites ==
    ASSUME IInv, SmallWrite
    PROVE  /\ db'.recorded = db.recorded /\ db'.rows = db.rows /\ db'.adapter = db.adapter
           /\ \/ db'.keys = db.keys
              \/ /\ \E s \in Starters : MarkSeeded(s)
                 /\ db'.keys = db.keys \cup {"client-routing"}
           /\ db.setting # None => db'.setting = db.setting
           /\ db.dns # None => db'.dns # None
<1>0. db \in Db
    BY DEF IInv, ShapeOK
<1>1. None # "shipped" /\ None # "operator"
    BY NoneIsNothing
<1>2. ASSUME NEW s \in Starters, EnsureSettings(s) \/ SeedDnsPolicy(s) \/ MarkSeeded(s)
      PROVE  /\ db'.recorded = db.recorded /\ db'.rows = db.rows /\ db'.adapter = db.adapter
             /\ \/ db'.keys = db.keys
                \/ MarkSeeded(s) /\ db'.keys = db.keys \cup {"client-routing"}
             /\ db.setting # None => db'.setting = db.setting
             /\ db.dns # None => db'.dns # None
    <2>1. CASE EnsureSettings(s)
        BY <1>0, <2>1 DEF EnsureSettings, Db
    <2>2. CASE SeedDnsPolicy(s)
        BY <1>0, <2>2 DEF SeedDnsPolicy, Db
    <2>3. CASE MarkSeeded(s)
        <3>1. db' = [db EXCEPT !.keys = @ \cup {"client-routing"}]
            BY <2>3 DEF MarkSeeded
        <3> QED
            BY <1>0, <2>3, <3>1 DEF Db
    <2> QED
        BY <1>2, <2>1, <2>2, <2>3
<1>3. ASSUME \/ \E s \in Starters : SeedRuleSets(s) \/ SeedClientPolicy(s)
             \/ SavePolicy \/ SaveDnsPolicy \/ SaveCustomDirect \/ DeleteRuleSet
             \/ \E r \in Requests : CreateFirstAdmin(r)
      PROVE  /\ db'.recorded = db.recorded /\ db'.rows = db.rows /\ db'.adapter = db.adapter
             /\ db'.keys = db.keys /\ db'.setting = db.setting
             /\ db'.dns = db.dns \/ db'.dns = "operator"
    <2>1. CASE \E s \in Starters : SeedRuleSets(s)
        BY <1>0, <2>1 DEF SeedRuleSets, Db
    <2>2. CASE \E s \in Starters : SeedClientPolicy(s)
        BY <1>0, <2>2 DEF SeedClientPolicy, Db
    <2>3. CASE SavePolicy
        BY <1>0, <2>3 DEF SavePolicy, Db
    <2>4. CASE SaveDnsPolicy
        BY <1>0, <2>4 DEF SaveDnsPolicy, Db
    <2>5. CASE SaveCustomDirect
        BY <1>0, <2>5 DEF SaveCustomDirect, Db
    <2>6. CASE DeleteRuleSet
        BY <1>0, <2>6 DEF DeleteRuleSet, Db
    <2>7. CASE \E r \in Requests : CreateFirstAdmin(r)
        BY <1>0, <2>7 DEF CreateFirstAdmin, Db
    <2> QED
        BY <1>3, <2>1, <2>2, <2>3, <2>4, <2>5, <2>6, <2>7
<1> QED
    BY <1>1, <1>2, <1>3 DEF SmallWrite

LEMMA WriteKinds ==
    ASSUME [Next]_vars
    PROVE  \/ QuietStep
           \/ \E s \in Starters : RunMigrations(s) \/ EnsureSmartAuto(s) \/ EnsureDaily(s)
           \/ SmallWrite
BY StepKinds DEF Write, SmallWrite

(* A database only gains keys, migrations, a setting and a DNS policy.       *)
LEMMA DbGrows ==
    ASSUME IInv, [Next]_vars
    PROVE  /\ db.recorded = 1..12 => db'.recorded = 1..12
           /\ db.keys \subseteq db'.keys
           /\ db.setting # None => db'.setting # None
           /\ db.dns # None => db'.dns # None
<1>1. CASE QuietStep
    BY <1>1, QuietSteps DEF Quiet
<1>2. ASSUME NEW s \in Starters, RunMigrations(s)
      PROVE  /\ db.recorded = 1..12 => db'.recorded = 1..12
             /\ db.keys \subseteq db'.keys /\ db'.setting = db.setting /\ db'.dns = db.dns
    BY <1>2, MigrationRows, MigratedKeys
<1>3. ASSUME NEW s \in Starters, EnsureSmartAuto(s) \/ EnsureDaily(s)
      PROVE  /\ db'.recorded = db.recorded
             /\ db.keys \subseteq db'.keys /\ db'.setting = db.setting /\ db'.dns = db.dns
    BY <1>3, SmartStep, DailyStep
<1>4. CASE SmallWrite
    BY <1>4, SmallWrites
<1> QED
    BY <1>1, <1>2, <1>3, <1>4, WriteKinds

LEMMA KeysNext ==
    ASSUME IInv, [Next]_vars
    PROVE  KeysOK'
<1>0. KeysOK /\ StagesOK
    BY DEF IInv
<1>1. CASE QuietStep
    BY <1>0, <1>1, QuietSteps DEF Quiet, KeysOK
<1>2. ASSUME NEW s \in Starters, RunMigrations(s) PROVE KeysOK'
    <2>1. 8 \in 1..12
        OBVIOUS
    <2> QED
        BY <1>0, <1>2, <2>1, MigrationRows, MigratedKeys DEF KeysOK
<1>3. ASSUME NEW s \in Starters, EnsureSmartAuto(s) PROVE KeysOK'
    <2>1. pc[s] = "smart" => db.recorded = 1..12 /\ "client-routing" \in db.keys
        BY <1>0, StepNames DEF StagesOK, StageOK
    <2>2. 8 \in 1..12
        OBVIOUS
    <2> QED
        BY <1>0, <1>3, <2>1, <2>2, SmartStep DEF KeysOK
<1>4. ASSUME NEW s \in Starters, EnsureDaily(s) PROVE KeysOK'
    <2>1. pc[s] = "daily" => db.recorded = 1..12 /\ "smart-auto" \in db.keys
        BY <1>0, StepNames DEF StagesOK, StageOK
    <2>2. 8 \in 1..12
        OBVIOUS
    <2> QED
        BY <1>0, <1>4, <2>1, <2>2, DailyStep DEF KeysOK
<1>5. CASE SmallWrite
    <2>1. ASSUME NEW s \in Starters, MarkSeeded(s) PROVE db.recorded = 1..12
        BY <1>0, <2>1, StepNames DEF MarkSeeded, StagesOK, StageOK
    <2>2. 8 \in 1..12
        OBVIOUS
    <2> QED
        BY <1>0, <1>5, <2>1, <2>2, SmallWrites DEF KeysOK
<1> QED
    BY <1>1, <1>2, <1>3, <1>4, <1>5, WriteKinds

(* Where a starter was, it stays as true as it was.                          *)
LEMMA StageStays ==
    ASSUME IInv, [Next]_vars, NEW s \in Starters, pc'[s] = pc[s]
    PROVE  StageOK(s)'
<1>1. StageOK(s)
    BY DEF IInv, StagesOK
<1> QED
    BY <1>1, DbGrows DEF StageOK

LEMMA StageMoves ==
    ASSUME IInv, [Next]_vars, NEW s \in Starters, Step(s) \/ Crash(s)
    PROVE  StageOK(s)'
<1>0. /\ db \in Db /\ pc \in [Starters -> Steps] /\ StageOK(s) /\ StageOK(s)' \in BOOLEAN
    BY DEF IInv, ShapeOK, StagesOK, StageOK
<1>1. /\ db.recorded = 1..12 => db'.recorded = 1..12
      /\ db.keys \subseteq db'.keys
      /\ db.setting # None => db'.setting # None
      /\ db.dns # None => db'.dns # None
    BY DbGrows
<1>2. None # "shipped" /\ None # "operator"
    BY NoneIsNothing
<1> USE StepNames
<1>3. CASE pc'[s] \in {"down", "tables", "columns", "alter", "migrate"}
    BY <1>3 DEF StageOK
<1>4. CASE CreateTables(s) \/ ReadColumns(s) \/ AddColumn(s) \/ Crash(s)
    <2>1. pc'[s] \in {"down", "tables", "columns", "alter", "migrate"}
        BY <1>0, <1>4 DEF CreateTables, ReadColumns, AddColumn, Crash, Go
    <2> QED
        BY <1>3, <2>1
<1>5. CASE RunMigrations(s)
    <2>1. pc'[s] = "down" \/ (pc'[s] = "settings" /\ db'.recorded = 1..12)
        BY <1>5, MigrationRows
    <2> QED
        BY <1>3, <2>1 DEF StageOK
<1>6. CASE EnsureSettings(s)
    <2>1. pc[s] = "settings" /\ pc'[s] = "adapters"
        BY <1>0, <1>6 DEF EnsureSettings, Go
    <2>2. db'.setting = IF db.setting = None THEN "shipped" ELSE db.setting
        BY <1>0, <1>6 DEF EnsureSettings, Db
    <2> QED
        BY <1>0, <1>1, <1>2, <2>1, <2>2 DEF StageOK
<1>7. CASE MigrateAdapterStates(s)
    <2>1. pc[s] = "adapters" /\ pc'[s] = "seed"
        BY <1>0, <1>7 DEF MigrateAdapterStates, Go
    <2> QED
        BY <1>0, <1>1, <2>1 DEF StageOK
<1>8. CASE CheckSeeded(s)
    <2>1. pc[s] = "seed" /\ pc'[s] = IF "client-routing" \in db.keys THEN "smart?" ELSE "sets"
        BY <1>0, <1>8 DEF CheckSeeded, Check, Go
    <2> QED
        BY <1>0, <1>1, <2>1 DEF StageOK
<1>9. CASE SeedRuleSets(s) \/ SeedClientPolicy(s)
    <2>1. \/ pc[s] = "sets" /\ pc'[s] = "policy"
          \/ pc[s] = "policy" /\ pc'[s] = "dns"
        BY <1>0, <1>9 DEF SeedRuleSets, SeedClientPolicy, Seed, Go
    <2> QED
        BY <1>0, <1>1, <2>1 DEF StageOK
<1>10. CASE SeedDnsPolicy(s)
    <2>1. pc[s] = "dns" /\ pc'[s] = "mark"
        BY <1>0, <1>10 DEF SeedDnsPolicy, Seed, Go
    <2>2. db'.dns = IF db.dns = None THEN "shipped" ELSE db.dns
        BY <1>0, <1>10 DEF SeedDnsPolicy, Db
    <2> QED
        BY <1>0, <1>1, <1>2, <2>1, <2>2 DEF StageOK
<1>11. CASE MarkSeeded(s)
    <2>1. pc[s] = "mark" /\ pc'[s] = "smart?"
        BY <1>0, <1>11 DEF MarkSeeded, Go
    <2>2. "client-routing" \in db'.keys
        <3>1. db' = [db EXCEPT !.keys = @ \cup {"client-routing"}]
            BY <1>11 DEF MarkSeeded
        <3> QED
            BY <1>0, <3>1 DEF Db
    <2> QED
        BY <1>0, <1>1, <2>1, <2>2 DEF StageOK
<1>12. CASE CheckSmartAuto(s)
    <2>1. pc[s] = "smart?" /\ pc'[s] = IF "smart-auto" \in db.keys THEN "daily?" ELSE "smart"
        BY <1>0, <1>12 DEF CheckSmartAuto, Check, Go
    <2> QED
        BY <1>0, <1>1, <2>1 DEF StageOK
<1>13. CASE EnsureSmartAuto(s)
    <2>1. \/ pc'[s] = "down"
          \/ pc[s] = "smart" /\ pc'[s] = "daily?" /\ "smart-auto" \in db'.keys
        BY <1>13, SmartStep
    <2> QED
        BY <1>0, <1>1, <1>3, <2>1 DEF StageOK
<1>14. CASE CheckDaily(s)
    <2>1. pc[s] = "daily?" /\ pc'[s] = IF "daily" \in db.keys THEN "admins" ELSE "daily"
        BY <1>0, <1>14 DEF CheckDaily, Check, Go
    <2> QED
        BY <1>0, <1>1, <2>1 DEF StageOK
<1>15. CASE EnsureDaily(s)
    <2>1. \/ pc'[s] = "down"
          \/ pc[s] = "daily" /\ pc'[s] = "admins" /\ "daily" \in db'.keys
        BY <1>15, DailyStep
    <2> QED
        BY <1>0, <1>1, <1>3, <2>1 DEF StageOK
<1>16. CASE CountAdmins(s)
    <2>1. pc[s] = "admins" /\ pc'[s] \in {"up", "down"}
        BY <1>0, <1>16 DEF CountAdmins, Go
    <2> QED
        BY <1>0, <1>1, <2>1 DEF StageOK
<1> QED
    BY <1>4, <1>5, <1>6, <1>7, <1>8, <1>9, <1>10, <1>11, <1>12, <1>13, <1>14, <1>15, <1>16 DEF Step

(* Who moves in a step. *)
LEMMA OneMoves ==
    ASSUME IInv, [Next]_vars
    PROVE  \/ pc' = pc
           \/ \E s \in Starters : (Step(s) \/ Crash(s)) /\ \A z \in Starters \ {s} : pc'[z] = pc[z]
           \/ \E s \in Starters : pc'[s] = "tables" /\ \A z \in Starters \ {s} : pc'[z] = pc[z]
<1>0. pc \in [Starters -> Steps]
    BY DEF IInv, ShapeOK
<1>1. ASSUME NEW s \in Starters, Step(s) \/ Crash(s)
      PROVE  \A z \in Starters \ {s} : pc'[z] = pc[z]
    <2>1. pc' = pc \/ \E x : Go(s, x)
        BY <1>1 DEF Step, Crash, CreateTables, ReadColumns, AddColumn, RunMigrations,
             EnsureSettings, MigrateAdapterStates, CheckSeeded, SeedRuleSets, SeedClientPolicy,
             SeedDnsPolicy, MarkSeeded, CheckSmartAuto, EnsureSmartAuto, CheckDaily, EnsureDaily,
             CountAdmins, Check, Seed, OneTime
    <2> QED
        BY <1>0, <2>1 DEF Go
<1>2. CASE StartPanel \/ RunTool
    BY <1>0, <1>2 DEF StartPanel, RunTool, Go, Starters
<1>3. CASE \/ SavePolicy \/ SaveDnsPolicy \/ SaveCustomDirect \/ DeleteRuleSet
          \/ (\E r \in Requests : SubmitSetup(r) \/ CreateFirstAdmin(r)) \/ UNCHANGED vars
    BY <1>3 DEF SavePolicy, SaveDnsPolicy, SaveCustomDirect, DeleteRuleSet,
         SubmitSetup, CreateFirstAdmin, vars
<1> QED
    BY <1>1, <1>2, <1>3 DEF Next

LEMMA StagesNext ==
    ASSUME IInv, [Next]_vars
    PROVE  StagesOK'
<1> SUFFICES ASSUME NEW z \in Starters PROVE StageOK(z)'
    BY DEF StagesOK
<1>1. CASE pc'[z] = pc[z]
    BY <1>1, StageStays
<1>2. CASE Step(z) \/ Crash(z)
    BY <1>2, StageMoves
<1>3. CASE pc'[z] = "tables"
    BY <1>3, StepNames DEF StageOK
<1> QED
    BY <1>1, <1>2, <1>3, OneMoves

-----------------------------------------------------------------------------
(* Owners *)

LEMMA AdminsNext ==
    ASSUME IInv, [Next]_vars
    PROVE  \/ db'.admins = db.admins
           \/ /\ db.admins = 0 /\ db'.admins = 1
              /\ \E r \in Requests : CreateFirstAdmin(r)
<1>0. db \in Db
    BY DEF IInv, ShapeOK
<1>1. CASE QuietStep
    BY <1>1, QuietSteps DEF Quiet
<1>2. ASSUME NEW s \in Starters, RunMigrations(s) \/ EnsureSmartAuto(s) \/ EnsureDaily(s)
      PROVE  db'.admins = db.admins
    BY <1>2, MigrationRows, SmartStep, DailyStep DEF Quiet
<1>3. ASSUME NEW s \in Starters,
             \/ EnsureSettings(s) \/ SeedRuleSets(s) \/ SeedClientPolicy(s)
             \/ SeedDnsPolicy(s) \/ MarkSeeded(s)
      PROVE  db'.admins = db.admins
    BY <1>0, <1>3 DEF EnsureSettings, SeedRuleSets, SeedClientPolicy, SeedDnsPolicy, MarkSeeded, Db
<1>4. CASE SavePolicy \/ SaveDnsPolicy \/ SaveCustomDirect \/ DeleteRuleSet
    BY <1>0, <1>4 DEF SavePolicy, SaveDnsPolicy, SaveCustomDirect, DeleteRuleSet, Db
<1>5. ASSUME NEW r \in Requests, CreateFirstAdmin(r)
      PROVE  db'.admins = db.admins \/ (db.admins = 0 /\ db'.admins = 1)
    BY <1>0, <1>5 DEF CreateFirstAdmin, Db
<1> QED
    BY <1>1, <1>2, <1>3, <1>4, <1>5, WriteKinds DEF SmallWrite

(* Who answers did before, or has just counted the administrators.           *)
LEMMA UpNext ==
    ASSUME IInv, [Next]_vars, NEW s \in Starters, pc'[s] = "up"
    PROVE  (pc[s] = "up" \/ (s = "panel" /\ (db.admins > 0 \/ token))) /\ token' = token
<1>0. pc \in [Starters -> Steps] /\ db \in Db
    BY DEF IInv, ShapeOK
<1>1. token' = token
    BY DEF Next, Step, Crash, CreateTables, ReadColumns, AddColumn, RunMigrations,
           EnsureSettings, MigrateAdapterStates, CheckSeeded, SeedRuleSets, SeedClientPolicy,
           SeedDnsPolicy, MarkSeeded, CheckSmartAuto, EnsureSmartAuto, CheckDaily, EnsureDaily,
           CountAdmins, Check, Seed, OneTime, StartPanel, RunTool, SavePolicy, SaveDnsPolicy,
           SaveCustomDirect, DeleteRuleSet, SubmitSetup, CreateFirstAdmin, vars
<1>2. CASE CountAdmins(s)
    BY <1>0, <1>1, <1>2 DEF CountAdmins, Go
<1>3. ASSUME (Step(s) /\ ~CountAdmins(s)) \/ Crash(s)
      PROVE  pc'[s] # "up"
    <2>1. CASE RunMigrations(s)
        BY <2>1, MigrationRows
    <2>2. CASE EnsureSmartAuto(s)
        BY <2>2, SmartStep
    <2>3. CASE EnsureDaily(s)
        BY <2>3, DailyStep
    <2>4. CASE CreateTables(s) \/ ReadColumns(s) \/ AddColumn(s) \/ EnsureSettings(s)
               \/ MigrateAdapterStates(s) \/ Crash(s)
        BY <1>0, <2>4 DEF CreateTables, ReadColumns, AddColumn, EnsureSettings,
             MigrateAdapterStates, Crash, Go
    <2>5. CASE CheckSeeded(s) \/ CheckSmartAuto(s) \/ CheckDaily(s) \/ MarkSeeded(s)
               \/ SeedRuleSets(s) \/ SeedClientPolicy(s) \/ SeedDnsPolicy(s)
        BY <1>0, <2>5 DEF CheckSeeded, CheckSmartAuto, CheckDaily, MarkSeeded, Check,
             SeedRuleSets, SeedClientPolicy, SeedDnsPolicy, Seed, Go
    <2> QED
        BY <1>3, <2>1, <2>2, <2>3, <2>4, <2>5 DEF Step
<1> QED
    BY <1>1, <1>2, <1>3, OneMoves

LEMMA OwnerNext ==
    ASSUME IInv, [Next]_vars
    PROVE  OwnerOK'
<1>0. OwnerOK /\ StagesOK /\ db \in Db /\ request \in [Requests -> {"idle", "hashing"}]
    BY DEF IInv, ShapeOK
<1>1. pc'["tool"] # "up"
    BY <1>0, UpNext DEF OwnerOK, Starters
<1>2. db'.admins <= 1 /\ (db.admins > 0 => db'.admins > 0)
    BY <1>0, AdminsNext DEF OwnerOK, Db
<1>3. pc'["panel"] = "up" => db'.admins > 0 \/ token'
    BY <1>0, <1>2, UpNext DEF OwnerOK, Starters
<1>4. ASSUME NEW r \in Requests, request'[r] = "hashing" PROVE db'.recorded = 1..12
    <2>1. CASE request[r] = "hashing"
        BY <1>0, <2>1, DbGrows DEF OwnerOK
    <2>2. CASE request[r] # "hashing"
        <3>1. pc["panel"] = "up"
            BY <1>0, <1>4, <2>2
               DEF Next, Step, Crash, CreateTables, ReadColumns, AddColumn, RunMigrations,
               EnsureSettings, MigrateAdapterStates, CheckSeeded, SeedRuleSets, SeedClientPolicy,
               SeedDnsPolicy, MarkSeeded, CheckSmartAuto, EnsureSmartAuto, CheckDaily, EnsureDaily,
               CountAdmins, Check, Seed, OneTime, StartPanel, RunTool, SavePolicy, SaveDnsPolicy,
               SaveCustomDirect, DeleteRuleSet, SubmitSetup, CreateFirstAdmin, vars
        <3>2. db.recorded = 1..12
            BY <1>0, <3>1, StepNames DEF StagesOK, StageOK, Starters
        <3> QED
            BY <3>2, DbGrows
    <2> QED
        BY <2>1, <2>2
<1> QED
    BY <1>1, <1>2, <1>3, <1>4 DEF OwnerOK

-----------------------------------------------------------------------------
(* Rows that a subscription needs *)

LEMMA DnsNext ==
    ASSUME IInv, [Next]_vars
    PROVE  DnsOK'
<1>0. /\ db \in Db /\ db' \in Db /\ DnsOK /\ KeysOK /\ StagesOK /\ OwnerOK
      /\ excepted'.noDns = excepted.noDns
    BY DbNext, HistoryNext DEF IInv, ShapeOK
<1>1. CASE QuietStep
    BY <1>0, <1>1, QuietSteps DEF Quiet, DnsOK
<1>2. ASSUME NEW s \in Starters, RunMigrations(s) PROVE DnsOK'
    <2>1. /\ db'.set = db.set /\ db'.dns = db.dns /\ db'.setting = db.setting
          /\ db'.admins = db.admins /\ db'.rows = db.rows
          /\ \/ db'.keys = db.keys /\ db'.recorded = db.recorded
             \/ db'.recorded = 1..12 /\ db'.keys = KeysOfExisting
        BY <1>2, MigrationRows
    <2>2. CASE db'.keys = db.keys /\ db'.recorded = db.recorded
        BY <1>0, <2>1, <2>2 DEF DnsOK
    <2>3. CASE db'.recorded = 1..12 /\ db'.keys = KeysOfExisting
        <3>1. 8 \in db'.recorded
            BY <2>3
        <3>2. ~db.rows /\ 8 \notin db.recorded => KeysOfExisting = {}
            <4> SUFFICES ASSUME ~db.rows, 8 \notin db.recorded PROVE KeysOfExisting = {}
                OBVIOUS
            <4>1. db.admins = 0 /\ db.setting = None /\ \A t \in Sets : db.set[t] = None
                BY <1>0 DEF DnsOK
            <4>2. ~ExistingInstall
                BY <4>1 DEF ExistingInstall
            <4> QED
                BY <4>2 DEF KeysOfExisting
        <3>3. 8 \in db.recorded => KeysOfExisting = db.keys
            BY DEF KeysOfExisting
        <3> QED
            BY <1>0, <2>1, <2>3, <3>1, <3>2, <3>3 DEF DnsOK
    <2> QED
        BY <2>1, <2>2, <2>3
<1>3. ASSUME NEW s \in Starters, EnsureSmartAuto(s) PROVE DnsOK'
    <2>1. CASE Quiet
        BY <1>0, <2>1 DEF Quiet, DnsOK
    <2>2. CASE ~Quiet
        <3>1. 8 \in db.recorded /\ "client-routing" \in db.keys
            <4>1. 8 \in 1..12
                OBVIOUS
            <4> QED
                BY <1>0, <1>3, <2>2, <4>1, SmartStep, StepNames DEF StagesOK, StageOK
        <3> QED
            BY <1>0, <1>3, <2>2, <3>1, SmartStep DEF DnsOK
    <2> QED
        BY <2>1, <2>2
<1>4. ASSUME NEW s \in Starters, EnsureDaily(s) PROVE DnsOK'
    <2>1. CASE Quiet
        BY <1>0, <2>1 DEF Quiet, DnsOK
    <2>2. CASE ~Quiet
        <3>1. 8 \in db.recorded /\ "client-routing" \in db.keys
            <4>1. 8 \in 1..12
                OBVIOUS
            <4> QED
                BY <1>0, <1>4, <2>2, <4>1, DailyStep, StepNames DEF StagesOK, StageOK
        <3> QED
            BY <1>0, <1>4, <2>2, <3>1, DailyStep DEF DnsOK
    <2> QED
        BY <2>1, <2>2
<1>5. CASE SmallWrite
    <2>1. db.recorded = 1..12
        <3>1. ASSUME NEW r \in Requests, CreateFirstAdmin(r) PROVE db.recorded = 1..12
            BY <1>0, <3>1 DEF CreateFirstAdmin, OwnerOK
        <3>2. ASSUME NEW s \in Starters,
                     \/ EnsureSettings(s) \/ SeedRuleSets(s) \/ SeedClientPolicy(s)
                     \/ SeedDnsPolicy(s) \/ MarkSeeded(s)
              PROVE  db.recorded = 1..12
            BY <1>0, <3>2, StepNames
               DEF EnsureSettings, SeedRuleSets, SeedClientPolicy, SeedDnsPolicy, MarkSeeded, Seed,
                   StagesOK, StageOK
        <3>3. ASSUME SavePolicy \/ SaveDnsPolicy \/ SaveCustomDirect \/ DeleteRuleSet
              PROVE  db.recorded = 1..12
            BY <1>0, <3>3, StepNames
               DEF SavePolicy, SaveDnsPolicy, SaveCustomDirect, DeleteRuleSet, StagesOK, StageOK,
                   Starters
        <3> QED
            BY <1>5, <3>1, <3>2, <3>3 DEF SmallWrite
    <2>2. 8 \in db'.recorded
        BY <1>5, <2>1, SmallWrites
    <2>3. \A s \in Starters : MarkSeeded(s) => db.dns # None
        BY <1>0 DEF MarkSeeded, StagesOK, StageOK
    <2> QED
        BY <1>0, <1>5, <2>2, <2>3, SmallWrites DEF DnsOK
<1> QED
    BY <1>1, <1>2, <1>3, <1>4, <1>5, WriteKinds

LEMMA DirectNext ==
    ASSUME IInv, [Next]_vars
    PROVE  DirectOK'
<1>0. db \in Db /\ DirectOK /\ db.set \in [Sets -> Choices]
    BY DEF IInv, ShapeOK, Db
<1>1. ASSUME db'.set["custom-direct"] = db.set["custom-direct"] PROVE DirectOK'
    BY <1>0, <1>1 DEF DirectOK
<1>2. CASE QuietStep
    BY <1>1, <1>2, QuietSteps DEF Quiet
<1>3. ASSUME NEW s \in Starters, RunMigrations(s) PROVE DirectOK'
    BY <1>1, <1>3, MigrationRows
<1>4. ASSUME NEW s \in Starters, EnsureSmartAuto(s) PROVE DirectOK'
    <2>1. CASE Quiet
        BY <1>1, <2>1 DEF Quiet
    <2>2. CASE ~Quiet
        <3>1. db'.set["custom-direct"] = MovedSet(db.set["custom-direct"])
            BY <1>4, <2>2, SmartStep DEF Sets
        <3>2. db.set["custom-direct"] \in Choices
            BY <1>0 DEF Sets
        <3>3. CASE db.set["custom-direct"] = None
            BY <1>1, <3>1, <3>3 DEF MovedSet
        <3>4. CASE db.set["custom-direct"] # None
            <4>1. db'.set["custom-direct"].target = Replaced(db.set["custom-direct"].target)
                <5> DEFINE x == db.set["custom-direct"]
                <5>1. MovedSet(x) = [target |-> Replaced(x.target), payload |-> x.payload]
                    BY <3>2, <3>4, SetMoved
                <5> QED
                    BY <3>1, <5>1
            <4> QED
                BY <1>0, <3>4, <4>1 DEF DirectOK, Replaced
        <3> QED
            BY <3>3, <3>4
    <2> QED
        BY <2>1, <2>2
<1>5. ASSUME NEW s \in Starters, EnsureDaily(s) PROVE DirectOK'
    <2>1. CASE Quiet
        BY <1>1, <2>1 DEF Quiet
    <2>2. CASE ~Quiet
        <3>1. db'.set = DailyRouting(db).set
            BY <1>5, <2>2, DailyStep
        <3> DEFINE n == DailyRouting(db)
        <3>2. n.set["custom-direct"] = IF db.set["custom-direct"] = None THEN CustomDirect
                     ELSE [target |-> "DIRECT", payload |-> db.set["custom-direct"].payload]
            BY <1>0, DailyRows
        <3> HIDE DEF n
        <3>3. n.set["custom-direct"].target = "DIRECT"
            BY <3>2 DEF CustomDirect
        <3>4. db'.set = n.set
            BY <3>1 DEF n
        <3> QED
            BY <3>3, <3>4 DEF DirectOK
    <2> QED
        BY <2>1, <2>2
<1>6. ASSUME NEW s \in Starters, SeedRuleSets(s) PROVE DirectOK'
    <2>1. db'.set["custom-direct"] = IF db.set["custom-direct"] = None THEN CustomDirect
                                     ELSE db.set["custom-direct"]
        BY <1>0, <1>6 DEF SeedRuleSets, Db, Sets
    <2> QED
        BY <1>0, <2>1 DEF DirectOK, CustomDirect
<1>7. ASSUME NEW s \in Starters,
             EnsureSettings(s) \/ SeedClientPolicy(s) \/ SeedDnsPolicy(s) \/ MarkSeeded(s)
      PROVE  DirectOK'
    <2>1. db'.set = db.set
        BY <1>0, <1>7 DEF EnsureSettings, SeedClientPolicy, SeedDnsPolicy, MarkSeeded, Db
    <2> QED
        BY <1>1, <2>1
<1>8. CASE SavePolicy \/ SaveDnsPolicy
    <2>1. db'.set = db.set
        BY <1>0, <1>8 DEF SavePolicy, SaveDnsPolicy, Db
    <2> QED
        BY <1>1, <2>1
<1>9. CASE SaveCustomDirect
    <2>1. db'.set["custom-direct"] = [db.set["custom-direct"] EXCEPT !.payload = "operator"]
        BY <1>0, <1>9 DEF SaveCustomDirect, Db, Sets
    <2>2. db.set["custom-direct"] \in RuleSet
        BY <1>0, <1>9 DEF SaveCustomDirect, Sets, Choices
    <2>3. db'.set["custom-direct"].target = db.set["custom-direct"].target
        BY <2>1, <2>2 DEF RuleSet
    <2> QED
        BY <1>0, <1>9, <2>3 DEF SaveCustomDirect, DirectOK
<1>10. CASE DeleteRuleSet
    <2>1. PICK t \in Sets \ {"custom-direct"} : db' = [db EXCEPT !.set[t] = None]
        BY <1>10 DEF DeleteRuleSet
    <2>2. db'.set["custom-direct"] = db.set["custom-direct"]
        BY <1>0, <2>1 DEF Db, Sets
    <2> QED
        BY <1>1, <2>2
<1>11. ASSUME NEW r \in Requests, CreateFirstAdmin(r) PROVE DirectOK'
    <2>1. db'.set = db.set
        BY <1>0, <1>11 DEF CreateFirstAdmin, Db
    <2> QED
        BY <1>1, <2>1
<1> QED
    BY <1>2, <1>3, <1>4, <1>5, <1>6, <1>7, <1>8, <1>9, <1>10, <1>11, WriteKinds DEF SmallWrite

-----------------------------------------------------------------------------
(* The policy *)

(* What the second change makes of a policy is about nothing but its tables. *)
LEMMA DailyIsOfRows ==
    ASSUME NEW d \in Db, NEW e \in Db, e.pool = d.pool, e.rule = d.rule, Valid(DailyRouting(d))
    PROVE  Valid(DailyRouting(e))
<1> DEFINE x == DailyRouting(d)
           y == DailyRouting(e)
<1>1. /\ x.pool = [i \in Pools |-> IF i = "LEGACY" THEN None ELSE MovedPool(d.pool[i])]
      /\ x.rule = [r \in Rules |-> Replaced(d.rule[r])]
    BY DailyRows
<1>2. /\ y.pool = [i \in Pools |-> IF i = "LEGACY" THEN None ELSE MovedPool(e.pool[i])]
      /\ y.rule = [r \in Rules |-> Replaced(e.rule[r])]
    BY DailyRows
<1>3. Valid(x)
    OBVIOUS
<1> HIDE DEF x, y
<1>4. Valid(y)
    BY <1>1, <1>2, <1>3, ValidIsOfRows
<1> QED
    BY <1>4 DEF y

LEMMA SamePolicy ==
    ASSUME IInv, [Next]_vars, db'.pool = db.pool, db'.rule = db.rule,
           "smart-auto" \in db'.keys /\ "daily" \notin db'.keys
              => "smart-auto" \in db.keys /\ "daily" \notin db.keys
    PROVE  PolicyOK'
<1>1. /\ db \in Db /\ db' \in Db /\ PolicyOK /\ excepted'.meddled = excepted.meddled
    BY DbNext, HistoryNext DEF IInv, ShapeOK
<1>2. Valid(db) => Valid(db')
    BY ValidIsOfRows
<1>3. Valid(DailyRouting(db)) => Valid(DailyRouting(db'))
    BY <1>1, DailyIsOfRows
<1> QED
    BY <1>1, <1>2, <1>3 DEF PolicyOK

LEMMA PolicyNext ==
    ASSUME IInv, [Next]_vars
    PROVE  PolicyOK'
<1>0. /\ db \in Db /\ db' \in Db /\ PolicyOK /\ StagesOK /\ KeysOK
      /\ excepted'.meddled = excepted.meddled
    BY DbNext, HistoryNext DEF IInv, ShapeOK
<1>1. CASE QuietStep
    BY <1>1, QuietSteps, SamePolicy DEF Quiet
<1>2. ASSUME NEW s \in Starters, RunMigrations(s) PROVE PolicyOK'
    <2>1. db'.pool = db.pool /\ db'.rule = db.rule /\ db.keys \subseteq db'.keys
          /\ db'.keys \subseteq db.keys \cup {"client-routing"}
        BY <1>2, MigrationRows, MigratedKeys
    <2> QED
        BY <2>1, SamePolicy
<1>3. ASSUME NEW s \in Starters, EnsureSmartAuto(s) PROVE PolicyOK'
    <2>1. CASE Quiet
        BY <2>1, SamePolicy DEF Quiet
    <2>2. CASE ~Quiet
        <3> DEFINE n == SmartAutoPolicy(db)
        <3>1. db'.pool = n.pool /\ db'.rule = n.rule
            BY <1>3, <2>2, SmartStep
        <3>2. n \in Db
            BY <1>0, SmartRows
        <3>3. Valid(db) => Valid(n) /\ Valid(DailyRouting(n))
            BY <1>0, SmartIsValid
        <3> HIDE DEF n
        <3>4. Valid(n) => Valid(db')
            BY <3>1, ValidIsOfRows
        <3>5. Valid(DailyRouting(n)) => Valid(DailyRouting(db'))
            BY <1>0, <3>1, <3>2, DailyIsOfRows
        <3> QED
            BY <1>0, <3>3, <3>4, <3>5 DEF PolicyOK
    <2> QED
        BY <2>1, <2>2
<1>4. ASSUME NEW s \in Starters, EnsureDaily(s) PROVE PolicyOK'
    <2>1. CASE Quiet
        BY <2>1, SamePolicy DEF Quiet
    <2>2. CASE ~Quiet
        <3> DEFINE n == DailyRouting(db)
        <3>1. /\ db'.pool = n.pool /\ db'.rule = n.rule /\ pc[s] = "daily"
              /\ "daily" \notin db.keys /\ "daily" \in db'.keys
            BY <1>4, <2>2, DailyStep
        <3>2. "smart-auto" \in db.keys
            BY <1>0, <3>1, StepNames DEF StagesOK, StageOK
        <3>3. ~excepted.meddled => Valid(n)
            BY <1>0, <3>1, <3>2 DEF PolicyOK
        <3> HIDE DEF n
        <3>4. Valid(n) => Valid(db')
            BY <3>1, ValidIsOfRows
        <3> QED
            BY <1>0, <3>1, <3>3, <3>4 DEF PolicyOK
    <2> QED
        BY <2>1, <2>2
<1>5. ASSUME NEW s \in Starters, SeedClientPolicy(s) PROVE PolicyOK'
    <2>1. /\ db'.pool = Default(db.pool, Shipped.pool) /\ db'.rule = Default(db.rule, Shipped.rule)
          /\ db'.keys = db.keys
        BY <1>0, <1>5 DEF SeedClientPolicy, Db
    <2>2. db.pool \in [Pools -> Rooms] /\ db.rule \in [Rules -> Ends]
        BY <1>0 DEF Db
    <2>3. Valid(db) => Valid(db')
        BY <2>1, <2>2, DefaultIsValid
    <2>4. Valid(DailyRouting(db)) => Valid(DailyRouting(db'))
        BY <1>0, <2>1, DefaultThenDaily
    <2> QED
        BY <1>0, <2>1, <2>3, <2>4 DEF PolicyOK
<1>6. ASSUME NEW s \in Starters, EnsureSettings(s) \/ SeedRuleSets(s) \/ SeedDnsPolicy(s)
      PROVE  PolicyOK'
    <2>1. db'.pool = db.pool /\ db'.rule = db.rule /\ db'.keys = db.keys
        BY <1>0, <1>6 DEF EnsureSettings, SeedRuleSets, SeedDnsPolicy, Db
    <2> QED
        BY <2>1, SamePolicy
<1>7. ASSUME NEW s \in Starters, MarkSeeded(s) PROVE PolicyOK'
    <2>1. db'.pool = db.pool /\ db'.rule = db.rule /\ db'.keys = db.keys \cup {"client-routing"}
        <3>1. db' = [db EXCEPT !.keys = @ \cup {"client-routing"}]
            BY <1>7 DEF MarkSeeded
        <3> QED
            BY <1>0, <3>1 DEF Db
    <2> QED
        BY <2>1, SamePolicy
<1>8. CASE SavePolicy
    <2>1. PICK p \in OldPolicies : db' = [db EXCEPT !.pool = p.pool, !.rule = p.rule]
        BY <1>8 DEF SavePolicy
    <2>2. db'.pool = p.pool /\ db'.rule = p.rule /\ db'.keys = db.keys
        BY <1>0, <2>1 DEF Db
    <2>3. Valid(p)
        BY ConstantsAssumption DEF ConstantsAssumption
    <2>4. Valid(db')
        BY <2>2, <2>3, ValidIsOfRows
    <2>5. "daily" \in db.keys
        BY <1>0, <1>8, StepNames DEF SavePolicy, StagesOK, StageOK, Starters
    <2> QED
        BY <2>2, <2>4, <2>5 DEF PolicyOK
<1>9. CASE SaveDnsPolicy \/ SaveCustomDirect \/ DeleteRuleSet
    <2>1. db'.pool = db.pool /\ db'.rule = db.rule /\ db'.keys = db.keys
        BY <1>0, <1>9 DEF SaveDnsPolicy, SaveCustomDirect, DeleteRuleSet, Db
    <2> QED
        BY <2>1, SamePolicy
<1>10. ASSUME NEW r \in Requests, CreateFirstAdmin(r) PROVE PolicyOK'
    <2>1. db'.pool = db.pool /\ db'.rule = db.rule /\ db'.keys = db.keys
        BY <1>0, <1>10 DEF CreateFirstAdmin, Db
    <2> QED
        BY <2>1, SamePolicy
<1> QED
    BY <1>1, <1>2, <1>3, <1>4, <1>5, <1>6, <1>7, <1>8, <1>9, <1>10, WriteKinds DEF SmallWrite

-----------------------------------------------------------------------------
(* Rows of operators *)

(* Between two notes, rows that are looked at stay, except for the defaults  *)
(* of a database that has none.                                              *)
LEMMA RowsStay ==
    ASSUME IInv, [Next]_vars, kept' = kept, "daily" \in db'.keys <=> "daily" \in db.keys,
           ~excepted'.overlap => ~excepted.overlap,
           ~excepted'.overlap =>
              /\ \A i \in DOMAIN kept.pool : db'.pool[i] = db.pool[i]
              /\ \A r \in DOMAIN kept.rule : db'.rule[r] = db.rule[r]
              /\ \A t \in DOMAIN kept.set : db'.set[t] = db.set[t]
              /\ kept.dns # None => db'.dns = db.dns
              /\ db'.adapter["unknown"] = db.adapter["unknown"],
           db.setting # None => db'.setting = db.setting
    PROVE  KeptOK'
<1>0. /\ db \in Db /\ db' \in Db /\ kept \in Kept /\ DomainsOK /\ KeptOK
    BY DbNext DEF IInv, ShapeOK
<1> SUFFICES ASSUME ~excepted'.overlap PROVE RowsKept(db', kept)
    BY DEF KeptOK
<1>1. RowsKept(db, kept)
    BY <1>0 DEF KeptOK
<1>2. kept.setting # None => db'.setting = db.setting
    BY <1>1 DEF RowsKept
<1>3. "daily" \notin db.keys => DOMAIN kept.set \subseteq {"own", "custom-direct"}
    BY <1>0 DEF DomainsOK
<1> QED
    BY <1>0, <1>1, <1>2, <1>3, KeptByRows

(* A note of the whole database. *)
LEMMA Noted ==
    ASSUME NEW d \in Db, NEW e \in Db, "daily" \in d.keys, e.keys = d.keys,
           e.pool = d.pool, e.rule = d.rule, e.set = d.set, e.dns = d.dns,
           e.setting = d.setting, e.adapter["unknown"] = d.adapter["unknown"]
    PROVE  RowsKept(e, Everything(d))
BY DEF RowsKept, Everything, Upgraded

LEMMA KeptNext ==
    ASSUME IInv, [Next]_vars
    PROVE  KeptOK'
<1>0. /\ db \in Db /\ db' \in Db /\ kept \in Kept /\ DomainsOK /\ KeptOK /\ StagesOK /\ KeysOK
      /\ excepted \in [overlap : BOOLEAN, noDns : BOOLEAN, meddled : BOOLEAN]
    BY DbNext DEF IInv, ShapeOK
<1>1. pc["panel"] = "up" => "daily" \in db.keys
    BY <1>0, StepNames DEF StagesOK, StageOK, Starters
<1>2. CASE QuietStep
    <2>1. Quiet
        BY <1>2, QuietSteps
    <2>2. CASE kept' = kept
        BY <2>1, <2>2, RowsStay DEF Quiet
    <2>3. CASE pc["panel"] = "up" /\ kept' = Everything(db)
        <3>1. RowsKept(db', Everything(db))
            BY <1>0, <1>1, <2>1, <2>3, Noted DEF Quiet
        <3> QED
            BY <2>3, <3>1 DEF KeptOK
    <2> QED
        BY <2>1, <2>2, <2>3 DEF Quiet
<1>3. ASSUME NEW s \in Starters, RunMigrations(s) PROVE KeptOK'
    <2>1. /\ db'.pool = db.pool /\ db'.rule = db.rule /\ db'.set = db.set /\ db'.dns = db.dns
          /\ db'.setting = db.setting /\ db'.adapter = db.adapter
          /\ kept' = kept /\ excepted' = excepted
          /\ "daily" \in db'.keys <=> "daily" \in db.keys
        BY <1>3, MigrationRows, MigratedKeys
    <2> QED
        BY <2>1, RowsStay
<1>4. ASSUME NEW s \in Starters, EnsureSmartAuto(s) PROVE KeptOK'
    <2>1. CASE Quiet /\ db' = db
        <3>1. kept' = kept
            BY <1>4 DEF EnsureSmartAuto, OneTime
        <3> QED
            BY <2>1, <3>1, RowsStay DEF Quiet
    <2>2. CASE ~(Quiet /\ db' = db)
        <3> DEFINE n == SmartAutoPolicy(db)
        <3>1. /\ "smart-auto" \notin db.keys /\ db'.keys = db.keys \cup {"smart-auto"}
              /\ db'.pool = n.pool /\ db'.rule = n.rule
              /\ \A t \in Sets : db'.set[t] = MovedSet(db.set[t])
              /\ db'.dns = db.dns /\ db'.setting = db.setting /\ db'.adapter = db.adapter
              /\ kept' = kept /\ excepted' = excepted
            BY <1>4, <2>2, SmartStep
        <3>2. /\ n.pool = [i \in Pools |-> IF i = "OWN" THEN MovedPool(db.pool[i]) ELSE Shipped.pool[i]]
              /\ n.rule = [r \in Rules |-> IF r = "own" THEN Replaced(db.rule[r]) ELSE Shipped.rule[r]]
            BY <1>0, SmartRows
        <3> HIDE DEF n
        <3>3. "daily" \notin db.keys /\ "daily" \notin db'.keys
            BY <1>0, <3>1 DEF KeysOK
        <3>4. /\ db'.pool["OWN"] = MovedPool(db.pool["OWN"])
              /\ db'.rule["own"] = Replaced(db.rule["own"])
            BY <3>1, <3>2 DEF Pools, Rules
        <3>5. /\ DOMAIN kept.pool = {"OWN"} /\ DOMAIN kept.rule = {"own"}
              /\ DOMAIN kept.set \subseteq {"own", "custom-direct"}
              /\ "custom-direct" \in DOMAIN kept.set => db.set["custom-direct"] # None
            BY <1>0, <3>3 DEF DomainsOK
        <3>6. RowsKept(db, kept) => RowsKept(db', kept)
            BY <1>0, <3>1, <3>3, <3>4, <3>5, KeptBySmart
        <3> QED
            BY <1>0, <3>1, <3>6 DEF KeptOK
    <2> QED
        BY <2>1, <2>2
<1>5. ASSUME NEW s \in Starters, EnsureDaily(s) PROVE KeptOK'
    <2>1. CASE Quiet /\ db' = db
        <3>1. kept' = kept
            BY <1>5 DEF EnsureDaily, OneTime
        <3> QED
            BY <2>1, <3>1, RowsStay DEF Quiet
    <2>2. CASE ~(Quiet /\ db' = db)
        <3>1. /\ "daily" \notin db.keys /\ "daily" \in db'.keys
              /\ db'.pool = DailyRouting(db).pool /\ db'.rule = DailyRouting(db).rule
              /\ db'.set = DailyRouting(db).set
              /\ db'.dns = db.dns /\ db'.setting = db.setting /\ db'.adapter = db.adapter
              /\ kept' = kept /\ excepted' = excepted
            BY <1>5, <2>2, DailyStep
        <3>2. RowsKept(db, kept) => RowsKept(db', kept)
            BY <1>0, <3>1, KeptByDaily
        <3> QED
            BY <1>0, <3>1, <3>2 DEF KeptOK
    <2> QED
        BY <2>1, <2>2
<1>6. ASSUME NEW s \in Starters, SeedRuleSets(s) \/ SeedClientPolicy(s) \/ SeedDnsPolicy(s)
      PROVE  KeptOK'
    <2>1. /\ kept' = kept
          /\ excepted' = [excepted EXCEPT !.overlap = @ \/ "client-routing" \in db.keys]
        BY <1>6 DEF SeedRuleSets, SeedClientPolicy, SeedDnsPolicy, Seed
    <2>2. ~excepted'.overlap => ~excepted.overlap /\ "client-routing" \notin db.keys
        <3> DEFINE o == excepted.overlap \/ "client-routing" \in db.keys
        <3>1. excepted'.overlap = o
            BY <1>0, <2>1
        <3> QED
            BY <3>1
    <2>3. /\ db'.keys = db.keys /\ db'.setting = db.setting /\ db'.adapter = db.adapter
          /\ db'.pool["OWN"] = db.pool["OWN"] /\ db'.rule["own"] = db.rule["own"]
          /\ db'.set["own"] = db.set["own"]
          /\ db.set["custom-direct"] # None => db'.set["custom-direct"] = db.set["custom-direct"]
          /\ db.dns # None => db'.dns = db.dns
        <3>1. CASE SeedRuleSets(s)
            BY <1>0, <3>1 DEF SeedRuleSets, Db, Sets
        <3>2. CASE SeedClientPolicy(s)
            <4>1. /\ db'.keys = db.keys /\ db'.setting = db.setting /\ db'.adapter = db.adapter
                  /\ db'.pool = Default(db.pool, Shipped.pool)
                  /\ db'.rule = Default(db.rule, Shipped.rule)
                  /\ db'.set = db.set /\ db'.dns = db.dns
                BY <1>0, <3>2 DEF SeedClientPolicy, Db
            <4> QED
                BY <1>0, <4>1, DefaultType
        <3>3. CASE SeedDnsPolicy(s)
            BY <1>0, <3>3 DEF SeedDnsPolicy, Db
        <3> QED
            BY <1>6, <3>1, <3>2, <3>3
    <2>4. ASSUME ~excepted'.overlap
          PROVE  /\ \A i \in DOMAIN kept.pool : db'.pool[i] = db.pool[i]
                 /\ \A r \in DOMAIN kept.rule : db'.rule[r] = db.rule[r]
                 /\ \A t \in DOMAIN kept.set : db'.set[t] = db.set[t]
                 /\ kept.dns # None => db'.dns = db.dns
        <3>1. "daily" \notin db.keys
            BY <1>0, <2>2, <2>4 DEF KeysOK
        <3>2. /\ DOMAIN kept.pool = {"OWN"} /\ DOMAIN kept.rule = {"own"}
              /\ DOMAIN kept.set \subseteq {"own", "custom-direct"}
              /\ "custom-direct" \in DOMAIN kept.set => db.set["custom-direct"] # None
            BY <1>0, <3>1 DEF DomainsOK
        <3>3. kept.dns # None => db.dns # None
            BY <1>0, <2>2, <2>4 DEF KeptOK, RowsKept
        <3> QED
            BY <2>3, <3>2, <3>3
    <2> QED
        BY <2>1, <2>2, <2>3, <2>4, RowsStay
<1>7. ASSUME NEW s \in Starters, EnsureSettings(s) \/ MarkSeeded(s) PROVE KeptOK'
    <2>1. /\ db'.pool = db.pool /\ db'.rule = db.rule /\ db'.set = db.set /\ db'.dns = db.dns
          /\ kept' = kept /\ excepted' = excepted
        BY <1>0, <1>7 DEF EnsureSettings, MarkSeeded, Db
    <2>2. /\ db'.adapter = db.adapter
          /\ "daily" \in db'.keys <=> "daily" \in db.keys
          /\ db.setting # None => db'.setting = db.setting
        BY <1>7, SmallWrites DEF SmallWrite
    <2> QED
        BY <2>1, <2>2, RowsStay
<1>8. CASE SavePolicy \/ SaveDnsPolicy \/ SaveCustomDirect \/ DeleteRuleSet
    <2>1. kept' = Everything(db') /\ pc["panel"] = "up"
        BY <1>8 DEF SavePolicy, SaveDnsPolicy, SaveCustomDirect, DeleteRuleSet
    <2>2. db.keys \subseteq db'.keys
        BY DbGrows
    <2>3. RowsKept(db', Everything(db'))
        BY <1>0, <1>1, <2>1, <2>2, EverythingKept
    <2> QED
        BY <2>1, <2>3 DEF KeptOK
<1>9. ASSUME NEW r \in Requests, CreateFirstAdmin(r) PROVE KeptOK'
    <2>1. /\ db'.pool = db.pool /\ db'.rule = db.rule /\ db'.set = db.set /\ db'.dns = db.dns
          /\ db'.setting = db.setting /\ db'.adapter = db.adapter /\ db'.keys = db.keys
          /\ kept' = kept /\ excepted' = excepted
        BY <1>0, <1>9 DEF CreateFirstAdmin, Db
    <2> QED
        BY <2>1, RowsStay
<1> QED
    BY <1>2, <1>3, <1>4, <1>5, <1>6, <1>7, <1>8, <1>9, WriteKinds DEF SmallWrite

LEMMA DomainsNext ==
    ASSUME IInv, [Next]_vars
    PROVE  DomainsOK'
<1>0. /\ db \in Db /\ db' \in Db /\ DomainsOK /\ StagesOK
    BY DbNext DEF IInv, ShapeOK
<1> SUFFICES ASSUME "daily" \notin db'.keys PROVE DomainsOK'
    BY DEF DomainsOK
<1>1. "daily" \notin db.keys
    BY DbGrows
<1>2. pc["panel"] # "up"
    BY <1>0, <1>1, StepNames DEF StagesOK, StageOK, Starters
<1>3. ASSUME kept' = kept, db.set["custom-direct"] # None => db'.set["custom-direct"] # None
      PROVE  DomainsOK'
    BY <1>0, <1>1, <1>3 DEF DomainsOK
<1>4. CASE QuietStep
    BY <1>2, <1>3, <1>4, QuietSteps DEF Quiet
<1>5. ASSUME NEW s \in Starters, RunMigrations(s) PROVE DomainsOK'
    BY <1>3, <1>5, MigrationRows
<1>6. ASSUME NEW s \in Starters, EnsureSmartAuto(s) PROVE DomainsOK'
    <2>1. kept' = kept
        BY <1>6 DEF EnsureSmartAuto, OneTime
    <2>2. db.set["custom-direct"] \in Choices
        BY <1>0 DEF Db, Sets
    <2>3. db.set["custom-direct"] # None => MovedSet(db.set["custom-direct"]) # None
        BY <2>2, SetMoved
    <2>4. db' = db \/ db'.set["custom-direct"] = MovedSet(db.set["custom-direct"])
        BY <1>6, SmartStep DEF Sets
    <2> QED
        BY <1>3, <2>1, <2>3, <2>4
<1>7. ASSUME NEW s \in Starters, EnsureDaily(s) PROVE DomainsOK'
    <2>1. db' = db /\ kept' = kept
        <3>1. kept' = kept
            BY <1>7 DEF EnsureDaily, OneTime
        <3> QED
            BY <1>7, <3>1, DailyStep
    <2> QED
        BY <1>3, <2>1
<1>8. ASSUME NEW s \in Starters, SeedRuleSets(s) PROVE DomainsOK'
    <2>1. /\ kept' = kept
          /\ db'.set["custom-direct"] = IF db.set["custom-direct"] = None THEN CustomDirect
                                        ELSE db.set["custom-direct"]
        BY <1>0, <1>8 DEF SeedRuleSets, Seed, Db, Sets
    <2> QED
        BY <1>3, <2>1
<1>9. ASSUME NEW s \in Starters,
             EnsureSettings(s) \/ SeedClientPolicy(s) \/ SeedDnsPolicy(s) \/ MarkSeeded(s)
      PROVE  DomainsOK'
    <2>1. db'.set = db.set /\ kept' = kept
        BY <1>0, <1>9 DEF EnsureSettings, SeedClientPolicy, SeedDnsPolicy, MarkSeeded, Seed, Db
    <2> QED
        BY <1>3, <2>1
<1>10. ASSUME NEW r \in Requests, CreateFirstAdmin(r) PROVE DomainsOK'
    <2>1. db'.set = db.set /\ kept' = kept
        BY <1>0, <1>10 DEF CreateFirstAdmin, Db
    <2> QED
        BY <1>3, <2>1
<1>11. ~(SavePolicy \/ SaveDnsPolicy \/ SaveCustomDirect \/ DeleteRuleSet)
    BY <1>2 DEF SavePolicy, SaveDnsPolicy, SaveCustomDirect, DeleteRuleSet
<1> QED
    BY <1>4, <1>5, <1>6, <1>7, <1>8, <1>9, <1>10, <1>11, WriteKinds DEF SmallWrite

-----------------------------------------------------------------------------
(* Theorems *)

(* The invariant holds in every state of every behaviour.                    *)
THEOREM Invariance == Spec => []IInv
<1>1. Init => IInv
    BY InitOK
<1>2. IInv /\ [Next]_vars => IInv'
    <2> SUFFICES ASSUME IInv, [Next]_vars PROVE IInv'
        OBVIOUS
    <2> QED
        BY ShapeNext, KeysNext, StagesNext, OwnerNext, DnsNext, DirectNext, PolicyNext,
           DomainsNext, KeptNext DEF IInv
<1> QED
    BY <1>1, <1>2, PTL DEF Spec

(* Rows and history have their types, whatever build wrote the database.     *)
THEOREM Typing == Spec => []TypeOK
<1>1. IInv => TypeOK
    <2> SUFFICES ASSUME IInv PROVE TypeOK
        OBVIOUS
    <2>1. /\ db \in Db /\ request \in [Requests -> {"idle", "hashing"}] /\ token \in BOOLEAN
        BY DEF IInv, ShapeOK
    <2>2. [pool |-> db.pool, rule |-> db.rule] \in Policy
        BY <2>1 DEF Db, Policy, Rooms, Ends
    <2> QED
        BY <2>1, <2>2 DEF Db, TypeOK, Choices
<1> QED
    BY <1>1, Invariance, PTL

(* A panel that answers has a policy that validates, a DNS policy,           *)
(* custom-direct going DIRECT and somebody to administer it.                 *)
THEOREM AnsweringPanelsAreUsable == Spec => []UpIsUsable
<1>1. IInv => UpIsUsable
    <2> SUFFICES ASSUME IInv, pc["panel"] = "up"
                 PROVE  /\ Valid(db) \/ excepted.meddled
                        /\ db.dns # None \/ excepted.noDns
                        /\ db.set["custom-direct"] # None => db.set["custom-direct"].target = "DIRECT"
                        /\ db.admins > 0 \/ token
        BY DEF UpIsUsable
    <2>1. "client-routing" \in db.keys
        BY StepNames DEF IInv, StagesOK, StageOK, Starters
    <2>2. db.dns # None \/ excepted.noDns
        BY <2>1 DEF IInv, DnsOK
    <2>3. Valid(db) \/ excepted.meddled
        BY DEF IInv, PolicyOK
    <2> QED
        BY <2>2, <2>3 DEF IInv, OwnerOK, DirectOK
<1> QED
    BY <1>1, Invariance, PTL

(* Starts, of the panel and of the tool, leave the rows of operators alone.  *)
THEOREM OperatorsKeepTheirRows == Spec => []RestartsKeepRows
<1>1. IInv => RestartsKeepRows
    <2> SUFFICES ASSUME IInv, pc["panel"] = "up", ~excepted.overlap
                 PROVE  /\ \A i \in DOMAIN kept.pool : db.pool[i] = kept.pool[i]
                        /\ \A r \in DOMAIN kept.rule : db.rule[r] = kept.rule[r]
                        /\ \A t \in DOMAIN kept.set : db.set[t] = kept.set[t]
                        /\ kept.dns # None => db.dns = kept.dns
                        /\ kept.setting # None => db.setting = kept.setting
                        /\ db.adapter["unknown"] = kept.unknown
        BY DEF RestartsKeepRows
    <2>1. "daily" \in db.keys
        BY StepNames DEF IInv, StagesOK, StageOK, Starters
    <2>2. Upgraded(db) = db
        BY <2>1 DEF Upgraded
    <2>3. RowsKept(db, kept)
        BY DEF IInv, KeptOK
    <2> QED
        BY <2>2, <2>3 DEF RowsKept
<1> QED
    BY <1>1, Invariance, PTL

(* However many setup forms pass the check together, one owner is created.   *)
THEOREM ThereIsOneOwner == Spec => []OneOwner
<1>1. IInv => OneOwner
    BY DEF IInv, OwnerOK, OneOwner
<1> QED
    BY <1>1, Invariance, PTL

=============================================================================
