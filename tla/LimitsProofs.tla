---------------------------- MODULE LimitsProofs ----------------------------
(***************************************************************************)
(* Two limits that many requests race for.                                 *)
(*                                                                         *)
(* Invites: an invite is overshot by no more than the requests at work     *)
(* beside the last one entitled to it, and its uses are the accounts       *)
(* created with it.                                                        *)
(*                                                                         *)
(* Views: the last request admitted was admitted below the limit, and an   *)
(* item is only turned to for removal when it has had its views, or has    *)
(* expired.                                                                *)
(***************************************************************************)
EXTENDS MCCounters, FiniteSetTheorems, TLAPS

Pending == {"claim", "create", "count"}

(* What nobody has issued nobody has used.                                 *)
Unissued == \A i \in Invite \ issued :
    /\ via[i] = 0 /\ uses[i] = 0 /\ lost[i] = 0
    /\ \A r \in Reg : reg[r].pc \in Pending => reg[r].invite # i

(* Which steps a server takes, and what a claim knows.                     *)
Ways == \A r \in Reg :
    /\ server = "zipfast" => reg[r].pc # "claim"
    /\ server = "zipline" => reg[r].pc # "count"
    /\ reg[r].pc = "count" => reg[r].invite # NoInvite
    /\ reg[r].pc = "claim" =>
          /\ reg[r].invite \in Invite
          /\ maxUses[reg[r].invite] > 0 => reg[r].uses < maxUses[reg[r].invite]

Counted == server = "zipfast" => \A i \in row :
    via[i] = uses[i] + Cardinality(Uncounted(i)) + lost[i]

Bounded == server = "zipfast" => \A i \in Invite : maxUses[i] > 0 =>
    via[i] + Cardinality(Admitted(i)) + 1 <= maxUses[i] + Cardinality(Reg) + lost[i]

Claims == server = "zipline" => \A i \in Invite \ stale :
    /\ via[i] + Cardinality(Claimed(i)) <= uses[i]
    /\ maxUses[i] > 0 => uses[i] <= maxUses[i]

Inv == TypeOK /\ Unissued /\ Ways /\ Counted /\ Bounded /\ Claims

-----------------------------------------------------------------------------
LEMMA Disjoint ==
    ASSUME NEW S, NEW T, S \subseteq Reg, T \subseteq Reg, S \intersect T = {}
    PROVE  /\ IsFiniteSet(S) /\ Cardinality(S) \in Nat
           /\ IsFiniteSet(T) /\ Cardinality(T) \in Nat
           /\ Cardinality(Reg) \in Nat
           /\ Cardinality(S) + Cardinality(T) <= Cardinality(Reg)
<1>1. /\ IsFiniteSet(S) /\ Cardinality(S) \in Nat /\ IsFiniteSet(T) /\ Cardinality(T) \in Nat
      /\ IsFiniteSet(Reg) /\ Cardinality(Reg) \in Nat
  BY InvitesAssumption, FS_Subset, FS_CardinalityType
<1>2. Cardinality(S \union T) = Cardinality(S) + Cardinality(T) - Cardinality(S \intersect T)
  BY <1>1, FS_Union
<1>3. Cardinality(S \intersect T) = 0
  BY FS_EmptySet
<1>4. Cardinality(S \union T) <= Cardinality(Reg)
  BY <1>1, FS_Subset, S \union T \subseteq Reg
<1> QED BY <1>1, <1>2, <1>3, <1>4

LEMMA Sizes ==
    ASSUME NEW i
    PROVE  /\ IsFiniteSet(Admitted(i)) /\ Cardinality(Admitted(i)) \in Nat
           /\ IsFiniteSet(Claimed(i)) /\ Cardinality(Claimed(i)) \in Nat
           /\ IsFiniteSet(Uncounted(i)) /\ Cardinality(Uncounted(i)) \in Nat
           /\ Cardinality(Admitted(i)) + Cardinality(Uncounted(i)) <= Cardinality(Reg)
           /\ Cardinality(Reg) \in Nat /\ Cardinality(Reg) > 0
<1>1. /\ Admitted(i) \subseteq Reg /\ Claimed(i) \subseteq Reg /\ Uncounted(i) \subseteq Reg
      /\ Admitted(i) \intersect Uncounted(i) = {}
  BY DEF Admitted, Claimed, Uncounted
<1>2. Cardinality(Reg) # 0
  BY InvitesAssumption, FS_EmptySet
<1> QED BY <1>1, <1>2, Disjoint, InvitesAssumption, FS_Subset, FS_CardinalityType

LEMMA Types ==
    ASSUME TypeOK
    PROVE  /\ \A i \in Invite : /\ via[i] \in Nat /\ uses[i] \in Nat /\ lost[i] \in Nat
                                /\ maxUses[i] \in Nat
           /\ reg \in [Reg -> Busy \union {Idle}]
           /\ \A r \in Reg : reg[r] # Idle =>
                 /\ reg[r] \in Busy /\ reg[r].pc # "idle" /\ reg[r].pc \in Steps
                 /\ reg[r].invite \in Invite \union {NoInvite} /\ reg[r].uses \in Nat
           /\ \A r \in Reg : reg[r] = Idle => reg[r].pc = "idle"
<1>1. \A i \in Invite : via[i] \in Nat /\ uses[i] \in Nat /\ lost[i] \in Nat /\ maxUses[i] \in Nat
  BY InvitesAssumption DEF TypeOK
<1>2. reg \in [Reg -> Busy \union {Idle}]
  BY DEF TypeOK
<1>3. ASSUME NEW r \in Reg, reg[r] # Idle
      PROVE  /\ reg[r] \in Busy /\ reg[r].pc # "idle" /\ reg[r].pc \in Steps
             /\ reg[r].invite \in Invite \union {NoInvite} /\ reg[r].uses \in Nat
  <2>1. reg[r] \in Busy
    BY <1>2, <1>3
  <2> QED BY <2>1 DEF Busy, Steps
<1>4. \A r \in Reg : reg[r] = Idle => reg[r].pc = "idle"
  BY DEF Idle
<1> QED BY <1>1, <1>2, <1>3, <1>4

(* A request leaves a set of requests, or joins it.                        *)
LEMMA Leaves ==
    ASSUME NEW S, NEW T, NEW r, IsFiniteSet(S), r \in S, T = S \ {r}
    PROVE  Cardinality(T) = Cardinality(S) - 1
  BY FS_RemoveElement

LEMMA Joins ==
    ASSUME NEW S, NEW T, NEW r, IsFiniteSet(S), r \notin S, T = S \union {r}
    PROVE  Cardinality(T) = Cardinality(S) + 1
  BY FS_AddElement

LEMMA RegStep ==
    ASSUME TypeOK, NEW r \in Reg
    PROVE  /\ \A pc \in Steps : Goto(r, pc) /\ reg[r].pc # "idle" =>
                 /\ reg' \in [Reg -> Busy \union {Idle}]
                 /\ reg'[r].pc = pc /\ reg'[r].invite = reg[r].invite
                 /\ reg'[r].uses = reg[r].uses
                 /\ \A s \in Reg \ {r} : reg'[s] = reg[s]
           /\ Finish(r) => /\ reg' \in [Reg -> Busy \union {Idle}]
                           /\ reg'[r] = Idle /\ reg'[r].pc = "idle"
                           /\ \A s \in Reg \ {r} : reg'[s] = reg[s]
  BY DEF TypeOK, Goto, Finish, Busy, Idle

LEMMA TypeStep ==
    ASSUME TypeOK, [Next]_vars
    PROVE  TypeOK'
<1> USE InvitesAssumption DEF tally
<1>1. ASSUME NEW i \in Invite, CreateInvite(i) \/ DeleteInvite(i) \/ Expire(i) PROVE TypeOK'
  BY <1>1 DEF CreateInvite, DeleteInvite, Expire, TypeOK
<1>2. ASSUME NEW r \in Reg, NEW n \in Name, NEW i \in Invite \union {NoInvite}, Register(r, n, i)
      PROVE  TypeOK'
  <2>1. reg' \in [Reg -> Busy \union {Idle}]
    BY <1>2 DEF Register, TypeOK, Busy, Steps
  <2> QED BY <1>2, <2>1 DEF Register, TypeOK
<1>3. ASSUME NEW r \in Reg, ReadInvite(r) PROVE TypeOK'
  <2>1. reg[r].pc = "invite" /\ reg[r] \in Busy
    BY <1>3, Types DEF ReadInvite, Idle
  <2>2. CASE Consumable(reg[r].invite)
    <3>1. reg[r].invite \in Invite
      BY <2>2 DEF Consumable, TypeOK
    <3>2. uses[reg[r].invite] \in Nat
      BY <3>1 DEF TypeOK
    <3>3. reg' \in [Reg -> Busy \union {Idle}]
      BY <1>3, <2>1, <2>2, <3>2 DEF ReadInvite, TypeOK, Busy, Steps
    <3> QED BY <1>3, <3>3 DEF ReadInvite, TypeOK
  <2>3. CASE ~Consumable(reg[r].invite)
    BY <1>3, <2>3, RegStep DEF ReadInvite, TypeOK
  <2> QED BY <2>2, <2>3
<1>4. ASSUME NEW r \in Reg, ClaimUse(r) PROVE TypeOK'
  <2>1. reg[r].pc = "claim" /\ reg[r].uses \in Nat
    BY <1>4, Types DEF ClaimUse, Idle
  <2>2. reg' \in [Reg -> Busy \union {Idle}]
    BY <1>4, <2>1, RegStep DEF ClaimUse, Steps
  <2> QED BY <1>4, <2>1, <2>2 DEF ClaimUse, TypeOK
<1>5. ASSUME NEW r \in Reg, CreateUser(r) PROVE TypeOK'
  <2>1. reg[r].pc = "create" /\ reg[r].name \in Name /\ reg[r].invite \in Invite \union {NoInvite}
    BY <1>5, Types DEF CreateUser, Idle, Busy
  <2>2. reg' \in [Reg -> Busy \union {Idle}]
    BY <1>5, <2>1, RegStep DEF CreateUser, Steps
  <2> QED BY <1>5, <2>1, <2>2 DEF CreateUser, TypeOK
<1>6. ASSUME NEW r \in Reg, RegisterFails(r) PROVE TypeOK'
  BY <1>6, RegStep DEF RegisterFails, TypeOK
<1>7. ASSUME NEW r \in Reg, CountUse(r) \/ CountFails(r) PROVE TypeOK'
  <2>1. reg' \in [Reg -> Busy \union {Idle}]
    BY <1>7, RegStep DEF CountUse, CountFails
  <2>2. CASE CountUse(r)
    BY <2>1, <2>2 DEF CountUse, TypeOK
  <2>3. CASE CountFails(r)
    <3>1. lost' = [lost EXCEPT ![reg[r].invite] = @ + 1] /\ lost \in [Invite -> Nat]
      BY <2>3 DEF CountFails, TypeOK
    <3>2. lost' \in [Invite -> Nat]
      <4>1. CASE reg[r].invite \in Invite
        <5>1. lost[reg[r].invite] + 1 \in Nat
          BY <3>1, <4>1
        <5> QED BY <3>1, <5>1
      <4>2. CASE reg[r].invite \notin Invite
        BY <3>1, <4>2
      <4> QED BY <4>1, <4>2
    <3> QED BY <2>1, <2>3, <3>2 DEF CountFails, TypeOK
  <2> QED BY <1>7, <2>2, <2>3
<1>8. CASE SweepAtOnce
  BY <1>8 DEF SweepAtOnce, TypeOK
<1>9. CASE SelectExpired \/ SelectUsed
  BY <1>9 DEF SelectExpired, SelectUsed, TypeOK
<1>10. CASE DeleteSelected \/ SweepFails
  BY <1>10 DEF DeleteSelected, SweepFails, TypeOK
<1>11. CASE UNCHANGED vars
  BY <1>11 DEF vars, TypeOK
<1> QED BY <1>1, <1>2, <1>3, <1>4, <1>5, <1>6, <1>7, <1>8, <1>9, <1>10, <1>11
        DEF Next, SweepStep

-----------------------------------------------------------------------------
(* Steps that change no request and no count: those of administrators, of  *)
(* time and of the task.                                                   *)
LEMMA QuietStep ==
    ASSUME Inv, UNCHANGED <<server, maxUses, tally, reg>>, row' \subseteq issued',
           issued \subseteq issued', row' \ row \subseteq issued' \ issued,
           issued' \subseteq Invite
    PROVE  Unissued' /\ Ways' /\ Counted' /\ Bounded' /\ Claims'
<1>1. UNCHANGED <<server, maxUses, uses, via, lost, stale, reg>>
  BY DEF tally
<1>2. \A i : /\ Admitted(i)' = Admitted(i) /\ Claimed(i)' = Claimed(i)
             /\ Uncounted(i)' = Uncounted(i)
  BY <1>1 DEF Admitted, Claimed, Uncounted
<1>3. Unissued' /\ Ways'
  BY <1>1 DEF Inv, Unissued, Ways
<1>4. Bounded' /\ Claims'
  BY <1>1, <1>2 DEF Inv, Bounded, Claims
<1>5. ASSUME server = "zipfast", NEW i \in row'
      PROVE  via[i] = uses[i] + Cardinality(Uncounted(i)) + lost[i]
  <2>1. CASE i \in row
    BY <1>5, <2>1 DEF Inv, Counted
  <2>2. CASE i \notin row
    <3>1. i \in Invite \ issued
      BY <2>2
    <3>2. Uncounted(i) = {}
      BY <3>1 DEF Inv, Unissued, Uncounted, Pending
    <3>3. via[i] = 0 /\ uses[i] = 0 /\ lost[i] = 0 /\ Cardinality(Uncounted(i)) = 0
      BY <3>1, <3>2, FS_EmptySet DEF Inv, Unissued
    <3> QED BY <3>3
  <2> QED BY <2>1, <2>2
<1> QED BY <1>1, <1>2, <1>3, <1>4, <1>5 DEF Counted

(* A request that begins, or ends before its account exists.               *)
LEMMA OutsideStep ==
    ASSUME Inv, NEW r \in Reg, reg[r].pc # "count",
           reg' \in [Reg -> Busy \union {Idle}],
           reg'[r].pc \notin Pending
             \/ (reg'[r].pc = "create" /\ reg'[r].invite = NoInvite /\ reg[r] = Idle),
           \A s \in Reg \ {r} : reg'[s] = reg[s],
           UNCHANGED <<server, issued, row, maxUses, tally>>
    PROVE  Unissued' /\ Ways' /\ Counted' /\ Bounded' /\ Claims'
<1>1. UNCHANGED <<server, issued, row, maxUses, uses, via, lost, stale>> /\ NoInvite \notin Invite
  BY InvitesAssumption DEF tally
<1>2. \A i \in Invite : /\ Admitted(i)' \subseteq Admitted(i) /\ Claimed(i)' \subseteq Claimed(i)
                        /\ Uncounted(i)' = Uncounted(i)
  BY <1>1 DEF Admitted, Claimed, Uncounted, Pending
<1>3. \A i \in Invite : /\ Cardinality(Admitted(i)') <= Cardinality(Admitted(i))
                        /\ Cardinality(Claimed(i)') <= Cardinality(Claimed(i))
                        /\ Cardinality(Admitted(i)') \in Nat /\ Cardinality(Claimed(i)') \in Nat
  BY <1>2, Sizes, FS_Subset, FS_CardinalityType
<1>4. Unissued' /\ Ways'
  BY <1>1 DEF Inv, Unissued, Ways, Pending
<1>5. Counted'
  BY <1>1, <1>2 DEF Inv, Counted, TypeOK
<1>6. Bounded' /\ Claims'
  <2>1. \A i \in Invite : /\ via[i] \in Nat /\ uses[i] \in Nat /\ lost[i] \in Nat
                          /\ maxUses[i] \in Nat /\ Cardinality(Admitted(i)) \in Nat
                          /\ Cardinality(Claimed(i)) \in Nat
    BY Types, Sizes DEF Inv
  <2>2. Bounded'
    BY <1>1, <1>3, <2>1, Sizes DEF Inv, Bounded
  <2>3. Claims'
    BY <1>1, <1>3, <2>1 DEF Inv, Claims
  <2> QED BY <2>2, <2>3
<1> QED BY <1>4, <1>5, <1>6

(* The invite is found consumable.                                         *)
LEMMA AdmitStep ==
    ASSUME Inv, NEW r \in Reg, ReadInvite(r), Consumable(reg[r].invite)
    PROVE  Unissued' /\ Ways' /\ Counted' /\ Bounded' /\ Claims'
<1>i. PICK i : i = reg[r].invite
  OBVIOUS
<1> USE <1>i
<1> DEFINE pc == IF server = "zipline" THEN "claim" ELSE "create"
<1>1. UNCHANGED <<server, issued, row, maxUses, uses, via, lost, stale>>
  BY DEF ReadInvite, tally
<1>2. i \in row /\ i \in issued /\ i \in Invite /\ Below(i) /\ server \in {"zipfast", "zipline"}
  BY InvitesAssumption DEF Consumable, Inv, TypeOK
<1>3. reg[r].pc = "invite" /\ reg[r] \in Busy
  BY Types DEF ReadInvite, Inv, Idle
<1>4. /\ reg'[r].pc = pc /\ reg'[r].invite = i /\ reg'[r].uses = uses[i]
      /\ \A s \in Reg \ {r} : reg'[s] = reg[s]
  BY <1>3, Types DEF ReadInvite, Inv, Busy
<1>5. \A j \in Invite : /\ Uncounted(j)' = Uncounted(j)
                        /\ j # i => Admitted(j)' = Admitted(j) /\ Claimed(j)' = Claimed(j)
                        /\ server = "zipline" => Claimed(j)' = Claimed(j)
  BY <1>1, <1>2, <1>3, <1>4 DEF Admitted, Claimed, Uncounted
<1>6. \A j \in Invite : /\ via[j] \in Nat /\ uses[j] \in Nat /\ lost[j] \in Nat
                        /\ maxUses[j] \in Nat
  BY Types DEF Inv
<1>7. Unissued'
  BY <1>1, <1>2, <1>4 DEF Inv, Unissued, Pending
<1>8. Ways'
  BY <1>1, <1>2, <1>4, <1>6 DEF Inv, Ways, Below
<1>9. Counted'
  BY <1>1, <1>5 DEF Inv, Counted, TypeOK
<1>10. Claims'
  BY <1>1, <1>5 DEF Inv, Claims
<1>11. ASSUME server = "zipfast", NEW j \in Invite, maxUses[j] > 0
       PROVE  via[j] + Cardinality(Admitted(j)') + 1 <= maxUses[j] + Cardinality(Reg) + lost[j]
  <2>1. CASE j # i
    BY <1>5, <1>11, <2>1 DEF Inv, Bounded
  <2>2. CASE j = i
    <3>1. via[i] = uses[i] + Cardinality(Uncounted(i)) + lost[i] /\ uses[i] < maxUses[i]
      BY <1>2, <1>11, <2>2, <1>6 DEF Inv, Counted, Below
    <3>2. /\ Cardinality(Admitted(i)') + Cardinality(Uncounted(i)') <= Cardinality(Reg)
          /\ Cardinality(Admitted(i)') \in Nat /\ Cardinality(Uncounted(i)') \in Nat
          /\ Cardinality(Reg) \in Nat
      <4>1. /\ Admitted(i)' \subseteq Reg /\ Uncounted(i)' \subseteq Reg
            /\ Admitted(i)' \intersect Uncounted(i)' = {}
        BY DEF Admitted, Uncounted
      <4> QED BY <4>1, Disjoint
    <3>3. Uncounted(i)' = Uncounted(i)
      BY <1>2, <1>5
    <3> QED BY <1>2, <1>6, <2>2, <3>1, <3>2, <3>3
  <2> QED BY <2>1, <2>2
<1>12. Bounded'
  BY <1>1, <1>11 DEF Bounded
<1> QED BY <1>7, <1>8, <1>9, <1>10, <1>12

(* zipline claims a use, of a row that is still there.                     *)
LEMMA ClaimStep ==
    ASSUME Inv, NEW r \in Reg, ClaimUse(r), reg[r].invite \in row
    PROVE  Unissued' /\ Ways' /\ Counted' /\ Bounded' /\ Claims'
<1>i. PICK i : i = reg[r].invite
  OBVIOUS
<1> USE <1>i
<1>1. /\ UNCHANGED <<server, issued, row, maxUses, via, lost>>
      /\ uses' = [uses EXCEPT ![i] = reg[r].uses + 1]
      /\ stale' = IF uses[i] = reg[r].uses THEN stale ELSE stale \union {i}
      /\ Goto(r, "create") /\ reg[r].pc = "claim"
  BY DEF ClaimUse
<1>2. i \in Invite /\ i \in issued /\ server # "zipfast"
  BY <1>1 DEF Inv, TypeOK, Ways
<1>3. /\ reg'[r].pc = "create" /\ reg'[r].invite = i
      /\ \A s \in Reg \ {r} : reg'[s] = reg[s]
  BY <1>1, RegStep DEF Inv, Steps
<1>4. \A j \in Invite : /\ via[j] \in Nat /\ uses[j] \in Nat /\ maxUses[j] \in Nat
                        /\ j # i => uses'[j] = uses[j] /\ Claimed(j)' = Claimed(j)
  BY <1>1, <1>2, <1>3, Types DEF Inv, TypeOK, Claimed
<1>5. Unissued' /\ Ways'
  BY <1>1, <1>2, <1>3, <1>4 DEF Inv, Unissued, Ways, Pending
<1>6. Counted' /\ Bounded'
  BY <1>1, <1>2 DEF Counted, Bounded
<1>7. ASSUME server = "zipline", NEW j \in Invite, j \notin stale'
      PROVE  /\ via[j] + Cardinality(Claimed(j)') <= uses'[j]
             /\ maxUses[j] > 0 => uses'[j] <= maxUses[j]
  <2>1. CASE j # i
    <3>1. j \notin stale
      BY <1>1, <1>7
    <3> QED BY <1>4, <1>7, <2>1, <3>1 DEF Inv, Claims
  <2>2. CASE j = i
    <3>1. uses[i] = reg[r].uses /\ i \notin stale
      BY <1>1, <1>7, <2>2
    <3>2. uses'[i] = uses[i] + 1
      BY <1>1, <1>2, <3>1 DEF Inv, TypeOK
    <3>3. Claimed(i)' = Claimed(i) \union {r} /\ r \notin Claimed(i)
      BY <1>1, <1>3 DEF Claimed
    <3>4. Cardinality(Claimed(i)') = Cardinality(Claimed(i)) + 1
      BY <3>3, Joins, Sizes
    <3>5. via[i] + Cardinality(Claimed(i)) <= uses[i]
      BY <1>2, <1>7, <3>1 DEF Inv, Claims
    <3>6. maxUses[i] > 0 => uses[i] < maxUses[i]
      BY <1>1, <3>1 DEF Inv, Ways
    <3>7. /\ via[i] \in Nat /\ uses[i] \in Nat /\ maxUses[i] \in Nat
          /\ Cardinality(Claimed(i)) \in Nat
      BY <1>2, <1>4, Sizes
    <3> QED BY <2>2, <3>2, <3>4, <3>5, <3>6, <3>7
  <2> QED BY <2>1, <2>2
<1>8. Claims'
  BY <1>1, <1>7 DEF Claims
<1> QED BY <1>5, <1>6, <1>8

LEMMA CreateStep ==
    ASSUME Inv, NEW r \in Reg, CreateUser(r)
    PROVE  Unissued' /\ Ways' /\ Counted' /\ Bounded' /\ Claims'
<1>i. PICK i : i = reg[r].invite
  OBVIOUS
<1> USE <1>i
<1>1. /\ UNCHANGED <<server, issued, row, maxUses, uses, lost, stale>>
      /\ via' = (IF i = NoInvite THEN via ELSE [via EXCEPT ![i] = @ + 1])
      /\ reg[r].pc = "create"
      /\ IF i # NoInvite /\ server = "zipfast" THEN Goto(r, "count") ELSE Finish(r)
  BY DEF CreateUser
<1>2. i \in Invite \union {NoInvite} /\ server \in {"zipfast", "zipline"}
  BY <1>1, Types, InvitesAssumption DEF Inv, TypeOK, Idle
<1>3. /\ \A s \in Reg \ {r} : reg'[s] = reg[s]
      /\ IF i # NoInvite /\ server = "zipfast"
         THEN reg'[r].pc = "count" /\ reg'[r].invite = i
         ELSE reg'[r].pc = "idle"
  BY <1>1, RegStep DEF Inv, Steps
<1>4. \A j \in Invite : /\ via[j] \in Nat /\ uses[j] \in Nat /\ maxUses[j] \in Nat /\ lost[j] \in Nat
                        /\ j # i => via'[j] = via[j]
                        /\ j = i => via'[j] = via[j] + 1
  BY <1>1, <1>2, Types, InvitesAssumption DEF Inv, TypeOK
<1>5. \A j \in Invite : j # i => /\ Claimed(j)' = Claimed(j) /\ Admitted(j)' = Admitted(j)
                                 /\ Uncounted(j)' = Uncounted(j)
  BY <1>1, <1>3 DEF Claimed, Admitted, Uncounted
<1>6. i \in Invite => i \in issued
  BY <1>1 DEF Inv, Unissued, Pending
<1>7. Unissued' /\ Ways'
  BY <1>1, <1>2, <1>3, <1>4, <1>6 DEF Inv, Unissued, Ways, Pending
<1>8. CASE i = NoInvite
  <2>1. \A j \in Invite : j # i
    BY <1>8, InvitesAssumption
  <2>2. Counted'
    BY <1>1, <1>4, <1>5, <2>1 DEF Inv, Counted, TypeOK
  <2> QED BY <1>1, <1>4, <1>5, <1>7, <2>1, <2>2 DEF Inv, Bounded, Claims
<1>9. CASE i \in Invite
  <2>0. i # NoInvite
    BY <1>9, InvitesAssumption
  <2>1. /\ Claimed(i)' = Claimed(i) \ {r} /\ r \in Claimed(i)
        /\ Admitted(i)' = Admitted(i) \ {r} /\ r \in Admitted(i)
    BY <1>1, <1>3, <2>0 DEF Claimed, Admitted
  <2>2. /\ Cardinality(Claimed(i)') = Cardinality(Claimed(i)) - 1
        /\ Cardinality(Admitted(i)') = Cardinality(Admitted(i)) - 1
    BY <2>1, Leaves, Sizes
  <2>3. server = "zipfast" => Cardinality(Uncounted(i)') = Cardinality(Uncounted(i)) + 1
    <3> SUFFICES ASSUME server = "zipfast" PROVE Cardinality(Uncounted(i)') = Cardinality(Uncounted(i)) + 1
      OBVIOUS
    <3>1. Uncounted(i)' = Uncounted(i) \union {r} /\ r \notin Uncounted(i)
      BY <1>1, <1>3, <2>0 DEF Uncounted
    <3> QED BY <3>1, Joins, Sizes
  <2>4. /\ via'[i] = via[i] + 1 /\ via[i] \in Nat /\ uses[i] \in Nat /\ lost[i] \in Nat
        /\ maxUses[i] \in Nat /\ Cardinality(Claimed(i)) \in Nat
        /\ Cardinality(Admitted(i)) \in Nat /\ Cardinality(Uncounted(i)) \in Nat
        /\ Cardinality(Reg) \in Nat
    BY <1>4, <1>9, Sizes
  <2>5. Counted'
    <3> SUFFICES ASSUME server = "zipfast", NEW j \in row
                 PROVE  via'[j] = uses[j] + Cardinality(Uncounted(j)') + lost[j]
      BY <1>1 DEF Counted
    <3>1. j \in Invite /\ via[j] = uses[j] + Cardinality(Uncounted(j)) + lost[j]
      BY DEF Inv, Counted, TypeOK
    <3>2. CASE j = i
      BY <2>3, <2>4, <3>1, <3>2
    <3>3. CASE j # i
      BY <1>4, <1>5, <3>1, <3>3
    <3> QED BY <3>2, <3>3
  <2>6. Bounded'
    <3> SUFFICES ASSUME server = "zipfast", NEW j \in Invite, maxUses[j] > 0
                 PROVE  via'[j] + Cardinality(Admitted(j)') + 1
                          <= maxUses[j] + Cardinality(Reg) + lost[j]
      BY <1>1 DEF Bounded
    <3>1. via[j] + Cardinality(Admitted(j)) + 1 <= maxUses[j] + Cardinality(Reg) + lost[j]
      BY DEF Inv, Bounded
    <3>2. CASE j = i
      BY <2>2, <2>4, <3>1, <3>2
    <3>3. CASE j # i
      BY <1>4, <1>5, <3>1, <3>3
    <3> QED BY <3>2, <3>3
  <2>7. Claims'
    <3> SUFFICES ASSUME server = "zipline", NEW j \in Invite \ stale
                 PROVE  /\ via'[j] + Cardinality(Claimed(j)') <= uses[j]
                        /\ maxUses[j] > 0 => uses[j] <= maxUses[j]
      BY <1>1 DEF Claims
    <3>1. /\ via[j] + Cardinality(Claimed(j)) <= uses[j]
          /\ maxUses[j] > 0 => uses[j] <= maxUses[j]
      BY DEF Inv, Claims
    <3>2. CASE j = i
      BY <2>2, <2>4, <3>1, <3>2
    <3>3. CASE j # i
      BY <1>4, <1>5, <3>1, <3>3
    <3> QED BY <3>2, <3>3
  <2> QED BY <1>7, <2>5, <2>6, <2>7
<1> QED BY <1>2, <1>8, <1>9

(* The use is counted, found no row, or is lost.                           *)
LEMMA CountStep ==
    ASSUME Inv, NEW r \in Reg, CountUse(r) \/ CountFails(r)
    PROVE  Unissued' /\ Ways' /\ Counted' /\ Bounded' /\ Claims'
<1>i. PICK i : i = reg[r].invite
  OBVIOUS
<1> USE <1>i
<1>1. /\ UNCHANGED <<server, issued, row, maxUses, via, stale>>
      /\ reg[r].pc = "count" /\ Finish(r)
  BY DEF CountUse, CountFails
<1>2. i \in Invite /\ server = "zipfast"
  BY <1>1, Types, InvitesAssumption DEF Inv, TypeOK, Ways, Idle
<1>3. reg'[r].pc = "idle" /\ \A s \in Reg \ {r} : reg'[s] = reg[s]
  BY <1>1, RegStep DEF Inv
<1>4. /\ \A j \in Invite : j # i => uses'[j] = uses[j] /\ lost'[j] = lost[j]
      /\ i \in row => uses'[i] + lost'[i] = uses[i] + lost[i] + 1
      /\ lost'[i] \in {lost[i], lost[i] + 1}
      /\ \A j \in Invite : /\ via[j] \in Nat /\ uses[j] \in Nat /\ lost[j] \in Nat
                           /\ maxUses[j] \in Nat /\ uses'[j] \in Nat /\ lost'[j] \in Nat
  <2>1. \A j \in Invite : /\ via[j] \in Nat /\ uses[j] \in Nat /\ lost[j] \in Nat
                          /\ maxUses[j] \in Nat
    BY Types DEF Inv
  <2>2. CASE CountUse(r)
    BY <1>2, <2>1, <2>2 DEF CountUse, Inv, TypeOK
  <2>3. CASE CountFails(r)
    BY <1>2, <2>1, <2>3 DEF CountFails, Inv, TypeOK
  <2> QED BY <2>2, <2>3
<1>5. i \in issued
  BY <1>1, <1>2 DEF Inv, Unissued, Pending
<1>6. Unissued' /\ Ways'
  BY <1>1, <1>2, <1>3, <1>4, <1>5 DEF Inv, Unissued, Ways, Pending
<1>7. /\ \A j \in Invite : Admitted(j)' = Admitted(j)
      /\ \A j \in Invite : j # i => Uncounted(j)' = Uncounted(j)
      /\ Uncounted(i)' = Uncounted(i) \ {r} /\ r \in Uncounted(i)
  BY <1>1, <1>3 DEF Admitted, Uncounted
<1>8. Cardinality(Uncounted(i)') = Cardinality(Uncounted(i)) - 1
  BY <1>7, Leaves, Sizes
<1>9. Counted'
  <2> SUFFICES ASSUME NEW j \in row
               PROVE  via[j] = uses'[j] + Cardinality(Uncounted(j)') + lost'[j]
    BY <1>1 DEF Counted
  <2>1. j \in Invite /\ via[j] = uses[j] + Cardinality(Uncounted(j)) + lost[j]
    BY <1>2 DEF Inv, Counted, TypeOK
  <2>2. CASE j = i
    BY <1>2, <1>4, <1>8, <2>1, <2>2, Sizes
  <2>3. CASE j # i
    BY <1>4, <1>7, <2>1, <2>3
  <2> QED BY <2>2, <2>3
<1>10. Bounded'
  <2> SUFFICES ASSUME NEW j \in Invite, maxUses[j] > 0
               PROVE  via[j] + Cardinality(Admitted(j)') + 1
                        <= maxUses[j] + Cardinality(Reg) + lost'[j]
    BY <1>1 DEF Bounded
  <2>1. via[j] + Cardinality(Admitted(j)) + 1 <= maxUses[j] + Cardinality(Reg) + lost[j]
    BY <1>2 DEF Inv, Bounded
  <2>2. lost'[j] = lost[j] \/ lost'[j] = lost[j] + 1
    BY <1>4
  <2>3. Admitted(j)' = Admitted(j) /\ Cardinality(Admitted(j)) \in Nat /\ Cardinality(Reg) \in Nat
    BY <1>7, Sizes
  <2> QED BY <1>4, <2>1, <2>2, <2>3
<1>11. Claims'
  BY <1>1, <1>2 DEF Claims
<1> QED BY <1>6, <1>9, <1>10, <1>11

LEMMA InvStep ==
    ASSUME Inv, [Next]_vars
    PROVE  Inv'
<1>0. TypeOK'
  BY TypeStep DEF Inv
<1> SUFFICES Unissued' /\ Ways' /\ Counted' /\ Bounded' /\ Claims'
  BY <1>0 DEF Inv
<1>t. row \subseteq issued /\ issued \subseteq Invite /\ row' \subseteq issued' /\ issued' \subseteq Invite
  BY <1>0 DEF Inv, TypeOK
<1>1. ASSUME NEW i \in Invite, CreateInvite(i) \/ DeleteInvite(i) \/ Expire(i)
      PROVE  Unissued' /\ Ways' /\ Counted' /\ Bounded' /\ Claims'
  BY <1>1, <1>t, QuietStep DEF CreateInvite, DeleteInvite, Expire
<1>2. ASSUME NEW r \in Reg, NEW n \in Name, NEW i \in Invite \union {NoInvite}, Register(r, n, i)
      PROVE  Unissued' /\ Ways' /\ Counted' /\ Bounded' /\ Claims'
  <2>1. /\ reg[r] = Idle /\ reg[r].pc # "count"
        /\ UNCHANGED <<server, issued, row, maxUses, tally>>
        /\ reg' \in [Reg -> Busy \union {Idle}]
    BY <1>0, <1>2 DEF Register, Idle, TypeOK
  <2>2. /\ \A s \in Reg \ {r} : reg'[s] = reg[s]
        /\ reg'[r].pc = (IF i = NoInvite THEN "create" ELSE "invite") /\ reg'[r].invite = i
    BY <1>2 DEF Register, Inv, TypeOK
  <2> QED BY <2>1, <2>2, OutsideStep DEF Pending
<1>3. ASSUME NEW r \in Reg, ReadInvite(r)
      PROVE  Unissued' /\ Ways' /\ Counted' /\ Bounded' /\ Claims'
  <2>1. CASE Consumable(reg[r].invite)
    BY <1>3, <2>1, AdmitStep
  <2>2. CASE ~Consumable(reg[r].invite)
    <3>1. Finish(r) /\ reg[r].pc = "invite" /\ UNCHANGED <<server, issued, row, maxUses, tally>>
      BY <1>3, <2>2 DEF ReadInvite
    <3> QED BY <3>1, RegStep, OutsideStep DEF Inv, Pending
  <2> QED BY <2>1, <2>2
<1>4. ASSUME NEW r \in Reg, ClaimUse(r)
      PROVE  Unissued' /\ Ways' /\ Counted' /\ Bounded' /\ Claims'
  <2>1. CASE reg[r].invite \in row
    BY <1>4, <2>1, ClaimStep
  <2>2. CASE reg[r].invite \notin row
    <3>1. Finish(r) /\ reg[r].pc = "claim" /\ UNCHANGED <<server, issued, row, maxUses, tally>>
      BY <1>4, <2>2 DEF ClaimUse, tally
    <3> QED BY <3>1, RegStep, OutsideStep DEF Inv, Pending
  <2> QED BY <2>1, <2>2
<1>5. ASSUME NEW r \in Reg, CreateUser(r)
      PROVE  Unissued' /\ Ways' /\ Counted' /\ Bounded' /\ Claims'
  BY <1>5, CreateStep
<1>6. ASSUME NEW r \in Reg, RegisterFails(r)
      PROVE  Unissued' /\ Ways' /\ Counted' /\ Bounded' /\ Claims'
  <2>1. Finish(r) /\ reg[r].pc # "count" /\ UNCHANGED <<server, issued, row, maxUses, tally>>
    BY <1>6 DEF RegisterFails
  <2> QED BY <2>1, RegStep, OutsideStep DEF Inv, Pending
<1>7. ASSUME NEW r \in Reg, CountUse(r) \/ CountFails(r)
      PROVE  Unissued' /\ Ways' /\ Counted' /\ Bounded' /\ Claims'
  BY <1>7, CountStep
<1>8. CASE SweepStep \/ SweepFails \/ UNCHANGED vars
  <2>1. UNCHANGED <<server, issued, maxUses, tally, reg>> /\ row' \subseteq row
    BY <1>8 DEF SweepStep, SweepAtOnce, SelectExpired, SelectUsed, DeleteSelected, SweepFails,
               vars, tally
  <2> QED BY <1>t, <2>1, QuietStep
<1> QED BY <1>1, <1>2, <1>3, <1>4, <1>5, <1>6, <1>7, <1>8 DEF Next

LEMMA InvInit == ASSUME Init PROVE Inv
<1>1. TypeOK
  BY InvitesAssumption DEF Init, TypeOK, Idle
<1>2. \A i : Admitted(i) = {} /\ Claimed(i) = {} /\ Uncounted(i) = {}
  BY DEF Init, Idle, Admitted, Claimed, Uncounted
<1>3. Cardinality({}) = 0 /\ Cardinality(Reg) \in Nat /\ Cardinality(Reg) > 0
  BY FS_EmptySet, Sizes
<1>4. Unissued /\ Ways
  BY DEF Init, Idle, Unissued, Ways, Pending
<1>5. \A i \in Invite : via[i] = 0 /\ uses[i] = 0 /\ lost[i] = 0 /\ maxUses[i] \in Nat
  BY <1>1, Types DEF Init
<1>6. Counted /\ Bounded /\ Claims
  <2>1. row = {}
    BY DEF Init
  <2>2. Counted
    BY <2>1 DEF Counted
  <2>3. Bounded
    BY <1>2, <1>3, <1>5 DEF Bounded
  <2>4. Claims
    BY <1>2, <1>3, <1>5 DEF Claims
  <2> QED BY <2>2, <2>3, <2>4
<1> QED BY <1>1, <1>4, <1>6 DEF Inv

LEMMA Invariant == Spec => []Inv
<1>1. Init => Inv
  BY InvInit
<1>2. Inv /\ [Next]_vars => Inv'
  BY InvStep
<1> QED BY <1>1, <1>2, PTL DEF Spec

(* An invite of either server: its limit, the requests beside the last one *)
(* entitled to it, and the counts lost, bound the accounts created.        *)
THEOREM InviteOvershoot == Spec => []InviteOvershootBounded
<1>1. Inv => InviteOvershootBounded
  <2> SUFFICES ASSUME Inv, NEW i \in issued, maxUses[i] > 0
               PROVE  /\ server = "zipfast" => via[i] + 1 <= maxUses[i] + Cardinality(Reg) + lost[i]
                      /\ server = "zipline" /\ i \notin stale => via[i] <= maxUses[i]
    BY DEF InviteOvershootBounded
  <2>1. /\ i \in Invite /\ via[i] \in Nat /\ uses[i] \in Nat /\ lost[i] \in Nat
        /\ maxUses[i] \in Nat /\ Cardinality(Admitted(i)) \in Nat
        /\ Cardinality(Claimed(i)) \in Nat /\ Cardinality(Reg) \in Nat
    BY Types, Sizes DEF Inv, TypeOK
  <2>2. CASE server = "zipfast"
    BY <2>1, <2>2 DEF Inv, Bounded
  <2>3. CASE server = "zipline" /\ i \notin stale
    BY <2>1, <2>3 DEF Inv, Claims
  <2> QED BY <2>2, <2>3
<1> QED BY <1>1, Invariant, PTL

(* The uses in the row of an invite are the accounts created with it.      *)
THEOREM UsesCounted == Spec => []UsesAreAccounts
<1>1. Inv => UsesAreAccounts
  BY DEF Inv, TypeOK, Counted, Claims, UsesAreAccounts
<1> QED BY <1>1, Invariant, PTL

-----------------------------------------------------------------------------
(* The view limits of files and short URLs, of the Go server (ViewLimit)   *)
(* and of the TypeScript server (ReferenceViews): however many items,      *)
(* requests and, on the Go server, changes of limits there are, a limit is *)
(* overshot by no more than the number of concurrent requests less one.    *)
(* The finite sets of the instance are the finite sets of this module.     *)
LEMMA SameFiniteSets == \A S : Patched!IsFiniteSet(S) <=> IsFiniteSet(S)
  BY DEF IsFiniteSet, Patched!IsFiniteSet

LEMMA SameCardinality == \A S : Patched!Cardinality(S) = Cardinality(S)
  BY DEF Cardinality, Patched!Cardinality

(* Requests that have passed the check and not yet been served.            *)
Viewing(i) == {o \in Handler : work[o].item = i /\ work[o].pc \in {"open", "count"}}

(* A row's counter misses only the views that were lost.                   *)
ViewsCounted == \A i \in Items :
    /\ limit[i] <= peak[i]
    /\ i \in there => served[i] = views[i] + unseen[i]

(* The requests admitted and served: the last of them was admitted below   *)
(* the limit, beside at most all the other goroutines.                     *)
ViewsBounded == \A i \in Items :
    served[i] + Cardinality(Viewing(i)) + 1 <= peak[i] + Cardinality(Handler) + unseen[i]

ViewsInv == Patched!TypeOK /\ ViewsCounted /\ ViewsBounded

LEMMA AdmittedFinite ==
    ASSUME Patched!ViewLimitAssumption, NEW i
    PROVE  /\ IsFiniteSet(Viewing(i)) /\ Cardinality(Viewing(i)) \in Nat
           /\ Cardinality(Viewing(i)) <= Cardinality(Handler) /\ Cardinality(Handler) \in Nat
  BY SameFiniteSets, FS_Subset, FS_CardinalityType DEF Viewing, Patched!ViewLimitAssumption

LEMMA ViewNumbers ==
    ASSUME Patched!ViewLimitAssumption, Patched!TypeOK, NEW i \in Items
    PROVE  /\ views[i] \in Nat /\ served[i] \in Nat /\ unseen[i] \in Nat
           /\ peak[i] \in Nat /\ limit[i] \in Nat
<1>1. views[i] \in Nat /\ served[i] \in Nat
  BY DEF Patched!TypeOK
<1>2. unseen[i] \in 0..MaxLost /\ 0..MaxLost \subseteq Nat
  BY DEF Patched!TypeOK, Patched!ViewLimitAssumption
<1>3. peak[i] \in ViewLimits /\ limit[i] \in ViewLimits
  BY DEF Patched!TypeOK
<1> QED BY <1>1, <1>2, <1>3 DEF Patched!ViewLimitAssumption

LEMMA ViewsWorkStep ==
    ASSUME Patched!TypeOK, NEW o \in Patched!Op
    PROVE  /\ \A pc \in Patched!Steps, i \in Items : Patched!Goes(o, pc, i) =>
                 work' \in [Patched!Op -> [pc: Patched!Steps, item: Items, views: Nat] \union {Patched!Idle}]
           /\ \A pc \in Patched!Steps : Patched!Goto(o, pc) /\ work[o].pc # "idle" =>
                 work' \in [Patched!Op -> [pc: Patched!Steps, item: Items, views: Nat] \union {Patched!Idle}]
           /\ Patched!Finish(o) =>
                 work' \in [Patched!Op -> [pc: Patched!Steps, item: Items, views: Nat] \union {Patched!Idle}]
           /\ work[o].pc # "idle" => work[o].item \in Items
  BY DEF Patched!TypeOK, Patched!Goes, Patched!Goto, Patched!Finish, Patched!Idle

LEMMA ViewsTypeStep ==
    ASSUME Patched!ViewLimitAssumption, Patched!TypeOK, [Patched!Next]_(Patched!vars)
    PROVE  Patched!TypeOK'
<1> USE DEF Patched!ViewLimitAssumption
<1> DEFINE AtWork == [pc: Patched!Steps, item: Items, views: Nat]
<1>1. ASSUME NEW o \in Handler, NEW i \in Items, Patched!Admit(o, i) \/ Patched!Refuse(o, i) PROVE Patched!TypeOK'
  <2>1. \E pc \in Patched!Steps : Patched!Goes(o, pc, i)
    BY <1>1 DEF Patched!Admit, Patched!Refuse, Patched!FirstDrop, Patched!Steps
  <2>2. work' \in [Patched!Op -> AtWork \union {Patched!Idle}]
    BY <2>1, ViewsWorkStep DEF Patched!Op
  <2> QED BY <1>1, <2>2 DEF Patched!Admit, Patched!Refuse, Patched!TypeOK
<1>2. ASSUME NEW o \in Handler, Patched!Open(o) \/ Patched!Count(o) \/ Patched!CountFails(o) PROVE Patched!TypeOK'
  <2>1. /\ work[o].pc # "idle"
        /\ Patched!Finish(o) \/ Patched!Goto(o, "count")
    BY <1>2 DEF Patched!Open, Patched!Count, Patched!CountFails
  <2>2. work' \in [Patched!Op -> AtWork \union {Patched!Idle}] /\ work[o].item \in Items
    BY <2>1, ViewsWorkStep DEF Patched!Op, Patched!Steps
  <2> HIDE DEF AtWork
  <2>3. CASE Patched!Open(o)
    BY <2>2, <2>3 DEF Patched!Open, Patched!TypeOK, AtWork
  <2>4. CASE Patched!Count(o)
    BY <2>2, <2>4 DEF Patched!Count, Patched!TypeOK, AtWork
  <2>5. CASE Patched!CountFails(o)
    BY <2>2, <2>5 DEF Patched!CountFails, Patched!TypeOK, AtWork
  <2> QED BY <1>2, <2>3, <2>4, <2>5
<1>3. ASSUME NEW o \in Patched!Op, Patched!DropObject(o) \/ Patched!DropRow(o) PROVE Patched!TypeOK'
  <2>1. work[o].pc # "idle" /\ (Patched!Finish(o) \/ Patched!Goto(o, "dropRow"))
    BY <1>3 DEF Patched!DropObject, Patched!DropRow
  <2>2. work' \in [Patched!Op -> AtWork \union {Patched!Idle}]
    BY <2>1, ViewsWorkStep DEF Patched!Steps
  <2> QED BY <1>3, <2>2 DEF Patched!DropObject, Patched!DropRow, Patched!TypeOK
<1>4. ASSUME NEW t \in Task, NEW i \in Items, Patched!SweepFile(t, i) PROVE Patched!TypeOK'
  <2>1. work' \in [Patched!Op -> AtWork \union {Patched!Idle}]
    BY <1>4, ViewsWorkStep DEF Patched!SweepFile, Patched!Op, Patched!Steps
  <2> QED BY <1>4, <2>1 DEF Patched!SweepFile, Patched!TypeOK
<1>5. CASE Patched!SweepURLs
  BY <1>5 DEF Patched!SweepURLs, Patched!TypeOK
<1>6. ASSUME NEW i \in Items, NEW l \in ViewLimits, Patched!PatchLimit(i, l) PROVE Patched!TypeOK'
  BY <1>6 DEF Patched!PatchLimit, Patched!TypeOK
<1>7. CASE UNCHANGED Patched!vars
  BY <1>7 DEF Patched!vars, Patched!TypeOK
<1> QED BY <1>1, <1>2, <1>3, <1>4, <1>5, <1>6, <1>7 DEF Patched!Next

(* Only a visitor's own steps change who is admitted.                      *)
LEMMA ViewsStep ==
    ASSUME Patched!ViewLimitAssumption, ViewsInv, [Patched!Next]_(Patched!vars)
    PROVE  ViewsCounted' /\ ViewsBounded'
<1> USE DEF Patched!ViewLimitAssumption
<1>0. Patched!TypeOK /\ ViewsCounted /\ ViewsBounded
  BY DEF ViewsInv
<1>t. /\ \A i \in Items : /\ views[i] \in Nat /\ served[i] \in Nat /\ unseen[i] \in Nat
                         /\ peak[i] \in Nat /\ limit[i] \in Nat
      /\ work \in [Patched!Op -> [pc: Patched!Steps, item: Items, views: Nat] \union {Patched!Idle}]
      /\ served \in [Items -> Nat] /\ views \in [Items -> Nat]
      /\ unseen \in [Items -> 0..MaxLost]
      /\ peak \in [Items -> ViewLimits] /\ limit \in [Items -> ViewLimits]
  BY <1>0, ViewNumbers DEF Patched!TypeOK
<1>1. ASSUME NEW o \in Handler, NEW i \in Items, Patched!Admit(o, i) PROVE ViewsCounted' /\ ViewsBounded'
  <2>1. ViewsCounted'
    BY <1>0, <1>1 DEF Patched!Admit, ViewsCounted
  <2>2. ASSUME NEW j \in Items, j # i PROVE Viewing(j)' = Viewing(j)
    BY <1>1, <1>t, <2>2 DEF Patched!Admit, Patched!Goes, Viewing, Patched!Op, Patched!Idle
  <2>3. Cardinality(Viewing(i)') <= Cardinality(Handler) /\ Cardinality(Viewing(i)') \in Nat
    <3>1. Viewing(i)' \subseteq Handler
      BY DEF Viewing
    <3> QED BY <3>1, SameFiniteSets, FS_Subset, FS_CardinalityType
  <2>4. served[i] + 1 <= peak[i] + unseen[i]
    BY <1>0, <1>1, <1>t DEF Patched!Admit, ViewsCounted
  <2>5. ASSUME NEW j \in Items
        PROVE  served'[j] + Cardinality(Viewing(j)') + 1
                  <= peak'[j] + Cardinality(Handler) + unseen'[j]
    <3>1. served' = served /\ peak' = peak /\ unseen' = unseen
      BY <1>1 DEF Patched!Admit
    <3>2. CASE j = i
      <4>1. Cardinality(Handler) \in Nat
        BY AdmittedFinite
      <4> QED BY <1>t, <2>3, <2>4, <3>1, <3>2, <4>1
    <3>3. CASE j # i
      BY <1>0, <2>2, <3>1, <3>3 DEF ViewsBounded
    <3> QED BY <3>2, <3>3
  <2> QED BY <2>1, <2>5 DEF ViewsBounded
<1>2. ASSUME NEW o \in Handler, Patched!Open(o) \/ Patched!Count(o) \/ Patched!CountFails(o)
      PROVE  ViewsCounted' /\ ViewsBounded'
  <2>1. PICK i \in Items : i = work[o].item
    BY <1>0, <1>2, ViewsWorkStep DEF Patched!Open, Patched!Count, Patched!CountFails, Patched!Op
  <2>2. o \in Viewing(i) /\ o \in Patched!Op /\ work[o] \in [pc: Patched!Steps, item: Items, views: Nat]
    BY <1>2, <1>t, <2>1 DEF Patched!Open, Patched!Count, Patched!CountFails, Viewing, Patched!Op, Patched!Idle
  <2>3. \A p \in Handler \ {o} : work'[p] = work[p]
    BY <1>2, <1>t DEF Patched!Open, Patched!Count, Patched!CountFails, Patched!Goto, Patched!Finish, Patched!Op
  <2>4. \A j \in Items \ {i} : Viewing(j)' = Viewing(j)
    <3>1. work'[o] = Patched!Idle \/ work'[o].item = i
      BY <1>2, <1>t, <2>1, <2>2 DEF Patched!Open, Patched!Count, Patched!CountFails, Patched!Goto, Patched!Finish
    <3> QED BY <2>1, <2>2, <2>3, <3>1 DEF Viewing, Patched!Idle
  <2>5. CASE Patched!Open(o)
    <3>1. UNCHANGED <<there, views, limit, peak, served, unseen>>
      BY <2>5 DEF Patched!Open
    <3>2. Viewing(i)' \subseteq Viewing(i)
      BY <2>2, <2>3 DEF Viewing
    <3>3. Cardinality(Viewing(i)') <= Cardinality(Viewing(i))
          /\ Cardinality(Viewing(i)') \in Nat
      BY <3>2, AdmittedFinite, FS_Subset, FS_CardinalityType
    <3>4. ViewsBounded'
      BY <1>0, <1>t, <2>4, <3>1, <3>3, AdmittedFinite DEF ViewsBounded
    <3> QED BY <1>0, <3>1, <3>4 DEF ViewsCounted
  <2>6. CASE Patched!Count(o) \/ Patched!CountFails(o)
    <3>1. work'[o] = Patched!Idle
      BY <1>t, <2>2, <2>6 DEF Patched!Count, Patched!CountFails, Patched!Finish
    <3>2. Viewing(i)' = Viewing(i) \ {o}
      BY <2>2, <2>3, <3>1 DEF Viewing, Patched!Idle
    <3>3. Cardinality(Viewing(i)') = Cardinality(Viewing(i)) - 1
      BY <2>2, <3>2, AdmittedFinite, FS_RemoveElement
    <3>4. /\ UNCHANGED <<there, limit, peak>>
          /\ served'[i] = served[i] + 1 /\ unseen'[i] \in {unseen[i], unseen[i] + 1}
          /\ i \in there => views'[i] + unseen'[i] = views[i] + unseen[i] + 1
          /\ \A j \in Items \ {i} :
                served'[j] = served[j] /\ views'[j] = views[j] /\ unseen'[j] = unseen[j]
      BY <1>t, <2>1, <2>6 DEF Patched!Count, Patched!CountFails
    <3>5. ViewsCounted'
      BY <1>0, <1>t, <3>4 DEF ViewsCounted
    <3>6. ViewsBounded'
      BY <1>0, <1>t, <2>4, <3>3, <3>4, AdmittedFinite DEF ViewsBounded
    <3> QED BY <3>5, <3>6
  <2> QED BY <1>2, <2>5, <2>6
<1>3. ASSUME NEW o \in Patched!Op,
             Patched!DropObject(o) \/ Patched!DropRow(o) \/ (\E i \in Items : Patched!Refuse(o, i))
                           \/ (\E i \in Items : Patched!SweepFile(o, i))
      PROVE  ViewsCounted' /\ ViewsBounded'
  <2>1. \A j \in Items : Viewing(j)' = Viewing(j)
    BY <1>3, <1>t DEF Patched!DropObject, Patched!DropRow, Patched!Refuse, Patched!SweepFile,
                      Patched!Goes, Patched!Goto, Patched!Finish, Viewing,
                      Patched!FirstDrop, Patched!Op, Patched!Idle
  <2>2. UNCHANGED <<views, limit, peak, served, unseen>> /\ there' \subseteq there
    BY <1>3 DEF Patched!DropObject, Patched!DropRow, Patched!Refuse, Patched!SweepFile
  <2> QED BY <1>0, <2>1, <2>2 DEF ViewsCounted, ViewsBounded
<1>5. CASE Patched!SweepURLs \/ UNCHANGED Patched!vars
  <2>1. UNCHANGED <<views, limit, peak, served, unseen, work>> /\ there' \subseteq there
    BY <1>5 DEF Patched!SweepURLs, Patched!vars
  <2> QED BY <1>0, <2>1 DEF ViewsCounted, ViewsBounded, Viewing
<1>6. ASSUME NEW i \in Items, NEW l \in ViewLimits, Patched!PatchLimit(i, l) PROVE ViewsCounted' /\ ViewsBounded'
  <2>1. /\ UNCHANGED <<views, served, unseen, work, there>>
        /\ \A j \in Items : limit'[j] <= peak'[j] /\ peak[j] <= peak'[j] /\ peak'[j] \in Nat
    BY <1>0, <1>6, <1>t DEF Patched!PatchLimit, ViewsCounted
  <2>2. \A j \in Items : Viewing(j)' = Viewing(j)
    BY <2>1 DEF Viewing
  <2> QED BY <1>0, <1>t, <2>1, <2>2, AdmittedFinite DEF ViewsCounted, ViewsBounded
<1> QED BY <1>1, <1>2, <1>3, <1>5, <1>6 DEF Patched!Next, Patched!Op

LEMMA ViewsStart ==
    ASSUME Patched!ViewLimitAssumption, Patched!Init
    PROVE  ViewsInv
<1>1. Patched!TypeOK
  BY DEF Patched!Init, Patched!TypeOK, Patched!ViewLimitAssumption
<1>2. \A i \in Items : Viewing(i) = {}
  BY DEF Patched!Init, Viewing, Patched!Idle, Patched!Op
<1>3. Cardinality(Handler) \in Nat /\ Cardinality(Handler) # 0 /\ Cardinality({}) = 0
  BY SameFiniteSets, FS_EmptySet, FS_CardinalityType DEF Patched!ViewLimitAssumption
<1>4. ViewsCounted
  BY <1>1, ViewNumbers DEF Patched!Init, ViewsCounted
<1>5. ASSUME NEW i \in Items
      PROVE  served[i] + Cardinality(Viewing(i)) + 1
                <= peak[i] + Cardinality(Handler) + unseen[i]
  <2>1. Cardinality(Viewing(i)) = 0
    BY <1>2, <1>3
  <2>2. served[i] = 0 /\ unseen[i] = 0 /\ peak[i] \in Nat
    BY <1>1, ViewNumbers DEF Patched!Init
  <2> QED BY <1>3, <2>1, <2>2
<1> QED BY <1>1, <1>4, <1>5 DEF ViewsInv, ViewsBounded

(* Without changes of the limit every step is one that is possible with    *)
(* them.                                                                   *)
LEMMA SteadyIsPatched ==
    /\ Steady!Init <=> Patched!Init
    /\ Steady!Next => Patched!Next
    /\ Steady!OvershootBounded <=> Patched!OvershootBounded
<1>1. Steady!Init <=> Patched!Init
  BY DEF Steady!Init, Patched!Init, Steady!Idle, Patched!Idle, Steady!Op, Patched!Op
<1>2. Steady!OvershootBounded <=> Patched!OvershootBounded
  <2>1. Steady!Cardinality(Handler) = Patched!Cardinality(Handler)
    BY DEF Steady!Cardinality, Patched!Cardinality
  <2> QED BY <2>1 DEF Steady!OvershootBounded, Patched!OvershootBounded
<1>3. ASSUME Steady!Next PROVE Patched!Next
  <2> USE DEF Patched!Next, Steady!Goes, Patched!Goes, Steady!Goto, Patched!Goto, Steady!Finish, Patched!Finish,
              Steady!Idle, Patched!Idle, Steady!Op, Patched!Op, Steady!FirstDrop, Patched!FirstDrop
  <2>1. CASE \E o \in Handler, i \in Items : Steady!Admit(o, i) \/ Steady!Refuse(o, i)
    BY <2>1 DEF Steady!Admit, Patched!Admit, Steady!Refuse, Patched!Refuse
  <2>2. CASE \E o \in Handler : Steady!Open(o) \/ Steady!Count(o) \/ Steady!CountFails(o)
    BY <2>2 DEF Steady!Open, Patched!Open, Steady!Count, Patched!Count, Steady!CountFails, Patched!CountFails
  <2>3. CASE \E o \in Steady!Op : Steady!DropObject(o) \/ Steady!DropRow(o)
    BY <2>3 DEF Steady!DropObject, Patched!DropObject, Steady!DropRow, Patched!DropRow
  <2>4. CASE (\E t \in Task, i \in Items : Steady!SweepFile(t, i)) \/ Steady!SweepURLs
    BY <2>4 DEF Steady!SweepFile, Patched!SweepFile, Steady!SweepURLs, Patched!SweepURLs
  <2>5. CASE \E i \in Items, l \in ViewLimits : Steady!PatchLimit(i, l)
    BY <2>5 DEF Steady!PatchLimit
  <2> QED BY <1>3, <2>1, <2>2, <2>3, <2>4, <2>5 DEF Steady!Next
<1> QED BY <1>1, <1>2, <1>3

(* What a request or the task is about to remove has had its views.        *)
SpentGoes == \A o \in Patched!Op :
    work[o].pc \in {"dropObj", "dropRow"} => views[work[o].item] >= limit[work[o].item]

LEMMA SteadySpent ==
    ASSUME Patched!ViewLimitAssumption, Patched!TypeOK, SpentGoes, Steady!Next
    PROVE  SpentGoes' /\ Steady!RemovesOnlySpent
<1>0. /\ work \in [Patched!Op -> [pc: Patched!Steps, item: Items, views: Nat] \union {Patched!Idle}]
      /\ views \in [Items -> Nat] /\ limit \in [Items -> ViewLimits] /\ ViewLimits \subseteq Nat
      /\ Patched!Op = Handler \union Task /\ Steady!Op = Handler \union Task
      /\ Handler \intersect Task = {}
  BY DEF Patched!TypeOK, Patched!ViewLimitAssumption, Patched!Op, Steady!Op
<1> USE DEF Patched!Idle, Patched!Steps, Steady!Idle, Steady!Goes, Steady!Goto, Steady!Finish
<1>1. ASSUME NEW o \in Handler \union Task, \A p \in (Handler \union Task) \ {o} : work'[p] = work[p],
             UNCHANGED limit, \A i \in Items : views'[i] \in Nat /\ views'[i] >= views[i],
             work'[o].pc \in {"dropObj", "dropRow"} =>
                /\ work'[o].item \in Items
                /\ views[work'[o].item] >= limit[work'[o].item]
      PROVE  SpentGoes'
  <2>1. \A p \in Patched!Op : work[p].pc \in {"dropObj", "dropRow"} => work[p].item \in Items
    BY <1>0
  <2>2. \A p \in Patched!Op : work'[p].pc \in {"dropObj", "dropRow"} =>
          work'[p].item \in Items /\ views[work'[p].item] >= limit[work'[p].item]
    BY <1>0, <1>1, <2>1 DEF SpentGoes
  <2>3. \A i \in Items : limit[i] \in Nat /\ views[i] \in Nat
    BY <1>0
  <2>4. \A p \in Patched!Op : work'[p].pc \in {"dropObj", "dropRow"} =>
          views'[work'[p].item] >= limit'[work'[p].item]
    BY <1>1, <2>2, <2>3
  <2> QED BY <2>4 DEF SpentGoes, Patched!Op
<1>2. ASSUME NEW o \in Handler, NEW i \in Items, Steady!Admit(o, i) \/ Steady!Refuse(o, i)
      PROVE  SpentGoes' /\ Steady!RemovesOnlySpent
  <2>1. /\ \A p \in (Handler \union Task) \ {o} : work'[p] = work[p]
        /\ UNCHANGED <<limit, views, there, object>>
        /\ work'[o].pc \in {"dropObj", "dropRow"} => work'[o].item = i /\ views[i] >= limit[i]
    BY <1>0, <1>2 DEF Steady!Admit, Steady!Refuse, Steady!FirstDrop
  <2> QED BY <1>0, <1>1, <2>1 DEF Steady!RemovesOnlySpent
<1>3. ASSUME NEW o \in Handler, Steady!Open(o) \/ Steady!Count(o) \/ Steady!CountFails(o)
      PROVE  SpentGoes' /\ Steady!RemovesOnlySpent
  <2>1. /\ \A p \in (Handler \union Task) \ {o} : work'[p] = work[p]
        /\ UNCHANGED <<limit, there, object>>
        /\ work'[o].pc \notin {"dropObj", "dropRow"}
    BY <1>0, <1>3 DEF Steady!Open, Steady!Count, Steady!CountFails
  <2>2. \A i \in Items : views'[i] \in Nat /\ views'[i] >= views[i]
    BY <1>0, <1>3 DEF Steady!Open, Steady!Count, Steady!CountFails
  <2> QED BY <1>0, <1>1, <2>1, <2>2 DEF Steady!RemovesOnlySpent
<1>4. ASSUME NEW o \in Handler \union Task, Steady!DropObject(o) \/ Steady!DropRow(o)
      PROVE  SpentGoes' /\ Steady!RemovesOnlySpent
  <2>1. /\ \A p \in (Handler \union Task) \ {o} : work'[p] = work[p]
        /\ UNCHANGED <<limit, views>>
        /\ work'[o].pc \in {"dropObj", "dropRow"} => work'[o].item = work[o].item
        /\ work[o].pc \in {"dropObj", "dropRow"} /\ work[o].item \in Items
    BY <1>0, <1>4 DEF Steady!DropObject, Steady!DropRow
  <2>2. views[work[o].item] >= limit[work[o].item]
    BY <1>0, <2>1 DEF SpentGoes
  <2>3. there \ there' \subseteq {work[o].item} /\ object \ object' \subseteq {work[o].item}
    BY <1>4 DEF Steady!DropObject, Steady!DropRow
  <2>4. Steady!RemovesOnlySpent
    BY <2>2, <2>3 DEF Steady!RemovesOnlySpent
  <2> QED BY <1>0, <1>1, <2>1, <2>2, <2>4
<1>5. ASSUME NEW t \in Task, NEW i \in Items, Steady!SweepFile(t, i)
      PROVE  SpentGoes' /\ Steady!RemovesOnlySpent
  <2>1. /\ \A p \in (Handler \union Task) \ {t} : work'[p] = work[p]
        /\ UNCHANGED <<limit, views, there, object>>
        /\ work'[t].item = i /\ views[i] >= limit[i]
    BY <1>0, <1>5 DEF Steady!SweepFile
  <2> QED BY <1>0, <1>1, <2>1 DEF Steady!RemovesOnlySpent
<1>6. CASE Steady!SweepURLs
  BY <1>6 DEF Steady!SweepURLs, SpentGoes, Steady!RemovesOnlySpent
<1>7. ASSUME NEW i \in Items, NEW l \in ViewLimits, Steady!PatchLimit(i, l)
      PROVE  FALSE
  BY <1>7 DEF Steady!PatchLimit
<1> QED BY <1>0, <1>2, <1>3, <1>4, <1>5, <1>6, <1>7 DEF Steady!Next

(* The TypeScript server (ReferenceViews).                                 *)
Jobs == [pc: {"idle", "read", "stream", "count", "dropObj", "dropRow", "sweep"},
         item: Items \union {NoItem}, who: Browser \union {NoItem},
         files: SUBSET File, urls: SUBSET Url]

Knows(j) ==
    /\ j.pc \in {"read", "stream", "dropObj"} => j.item \in File
    /\ j.pc \in {"count", "dropRow"} => j.item \in Items

CountersTyped ==
    /\ there \subseteq Items
    /\ views \in [Items -> Nat] /\ limit \in [Items -> ViewLimits]
    /\ served \in [Items -> Nat] /\ unseen \in [Items -> 0..MaxLost]
    /\ job \in [Handler \union Task -> Jobs]
    /\ \A o \in Handler \union Task : Knows(job[o])

(* Requests that have passed the check and not yet been counted.           *)
Counting(i) == {o \in Handler : job[o].item = i /\ job[o].pc \in {"read", "count"}}

RowsCounted == \A i \in there : served[i] = views[i] + unseen[i]

CountsBounded == \A i \in Items : limit[i] # 0 =>
    served[i] + Cardinality(Counting(i)) + 1 <= limit[i] + Cardinality(Handler) + unseen[i]

(* What a request is about to remove has had its views or has expired, and *)
(* what the task selected has had them.                                    *)
MayGo(i) == i \in due \/ Zipline!Limited(i, views[i])

Removable(j) ==
    /\ j.pc \in {"dropObj", "dropRow"} => MayGo(j.item)
    /\ j.pc = "sweep" => \A i \in j.files \union j.urls : MayGo(i)

ReadyToGo == \A o \in Handler \union Task : Removable(job[o])

ZiplineInv == CountersTyped /\ RowsCounted /\ CountsBounded

LEMMA CountNumbers ==
    ASSUME Zipline!ReferenceViewsAssumption, CountersTyped, NEW i \in Items
    PROVE  /\ views[i] \in Nat /\ served[i] \in Nat /\ unseen[i] \in Nat /\ limit[i] \in Nat
<1>1. views[i] \in Nat /\ served[i] \in Nat /\ unseen[i] \in 0..MaxLost /\ limit[i] \in ViewLimits
  BY DEF CountersTyped
<1>2. 0..MaxLost \subseteq Nat /\ ViewLimits \subseteq Nat
  BY DEF Zipline!ReferenceViewsAssumption
<1> QED BY <1>1, <1>2

LEMMA HandlersFinite ==
    ASSUME Zipline!ReferenceViewsAssumption
    PROVE  /\ IsFiniteSet(Handler) /\ Cardinality(Handler) \in Nat
           /\ \A i : /\ IsFiniteSet(Counting(i)) /\ Cardinality(Counting(i)) \in Nat
                     /\ Cardinality(Counting(i)) <= Cardinality(Handler)
<1>1. IsFiniteSet(Handler)
  BY DEF IsFiniteSet, Zipline!IsFiniteSet, Zipline!ReferenceViewsAssumption
<1>2. \A i : Counting(i) \subseteq Handler
  BY DEF Counting
<1> QED BY <1>1, <1>2, FS_Subset, FS_CardinalityType

(* One request or the task turns to j, and only the due date of files and  *)
(* what visitors hold may change besides.                                  *)
LEMMA JobChanges ==
    ASSUME Zipline!ReferenceViewsAssumption, ZiplineInv, NEW o \in Handler \union Task, NEW j \in Jobs, Knows(j),
           job' = [job EXCEPT ![o] = j],
           UNCHANGED <<views, limit, served, unseen>>, there' \subseteq there, due \subseteq due',
           j.pc \in {"read", "count"} =>
             \/ j.item = job[o].item /\ job[o].pc \in {"read", "count"}
             \/ j.item \in there /\ (limit[j.item] # 0 => views[j.item] + 1 <= limit[j.item])
    PROVE  /\ ZiplineInv'
           /\ ReadyToGo /\ Removable(j) => ReadyToGo'
<1>0. /\ CountersTyped /\ RowsCounted /\ CountsBounded
      /\ job'[o] = j /\ \A p \in (Handler \union Task) \ {o} : job'[p] = job[p]
  BY DEF ZiplineInv, CountersTyped
<1>1. CountersTyped'
  <2>1. job' \in [Handler \union Task -> Jobs]
    BY <1>0 DEF CountersTyped
  <2>2. \A p \in Handler \union Task : Knows(job'[p])
    BY <1>0 DEF CountersTyped
  <2> QED BY <1>0, <2>1, <2>2 DEF CountersTyped, Knows
<1>2. RowsCounted'
  BY <1>0 DEF RowsCounted
<1>3. ASSUME NEW i \in Items, limit[i] # 0
      PROVE  served[i] + Cardinality(Counting(i)') + 1 <= limit[i] + Cardinality(Handler) + unseen[i]
  <2>1. CASE Counting(i)' \subseteq Counting(i)
    <3>1. Cardinality(Counting(i)') <= Cardinality(Counting(i)) /\ Cardinality(Counting(i)') \in Nat
      BY <2>1, HandlersFinite, FS_Subset, FS_CardinalityType
    <3> QED BY <1>0, <1>3, <3>1, HandlersFinite, CountNumbers DEF CountsBounded
  <2>2. CASE ~(Counting(i)' \subseteq Counting(i))
    <3>1. j.item = i /\ j.pc \in {"read", "count"} /\ ~(j.item = job[o].item /\ job[o].pc \in {"read", "count"})
      BY <1>0, <2>2 DEF Counting
    <3>2. i \in there /\ views[i] + 1 <= limit[i]
      BY <1>3, <3>1
    <3>3. Counting(i)' \subseteq Handler
      BY DEF Counting
    <3>4. Cardinality(Counting(i)') <= Cardinality(Handler) /\ Cardinality(Counting(i)') \in Nat
      BY <3>3, HandlersFinite, FS_Subset, FS_CardinalityType
    <3> QED BY <1>0, <3>2, <3>4, HandlersFinite, CountNumbers DEF RowsCounted
  <2> QED BY <2>1, <2>2
<1>4. CountsBounded'
  BY <1>3 DEF CountsBounded
<1>5. ASSUME ReadyToGo, Removable(j) PROVE ReadyToGo'
  <2>1. \A i : MayGo(i) => MayGo(i)'
    BY DEF MayGo, Zipline!Limited
  <2>2. \A p \in Handler \union Task : Removable(job'[p])
    BY <1>0, <1>5 DEF ReadyToGo
  <2>3. \A p \in Handler \union Task : Removable(job[p])'
    BY <2>1, <2>2 DEF Removable
  <2> QED BY <2>3 DEF ReadyToGo
<1> QED BY <1>1, <1>2, <1>4, <1>5 DEF ZiplineInv

(* A request is done with its visit.                                       *)
LEMMA VisitCounts ==
    ASSUME Zipline!ReferenceViewsAssumption, ZiplineInv, NEW o \in Handler, Zipline!Count(o) \/ Zipline!CountFails(o)
    PROVE  /\ ZiplineInv'
           /\ ReadyToGo => ReadyToGo'
           /\ Zipline!RemovesOnlySpent
<1>0. /\ CountersTyped /\ RowsCounted /\ CountsBounded
      /\ job \in [Handler \union Task -> Jobs] /\ job[o].pc = "count"
      /\ job' = [job EXCEPT ![o] = Zipline!Idle]
      /\ UNCHANGED <<there, object, due, limit>>
  BY DEF ZiplineInv, CountersTyped, Zipline!Count, Zipline!CountFails, Zipline!Finish, Zipline!rest
<1>1. PICK i \in Items : i = job[o].item
  BY <1>0 DEF CountersTyped, Knows
<1>2. /\ views \in [Items -> Nat] /\ served \in [Items -> Nat] /\ unseen \in [Items -> 0..MaxLost]
      /\ 0..MaxLost \subseteq Nat /\ Zipline!Item = Items
  BY <1>0 DEF CountersTyped, Zipline!ReferenceViewsAssumption, Zipline!Item, Items
<1>3. /\ job'[o] = Zipline!Idle /\ Zipline!Idle \in Jobs /\ Zipline!Idle.pc = "idle" /\ Knows(Zipline!Idle)
      /\ \A p \in (Handler \union Task) \ {o} : job'[p] = job[p]
  BY <1>0 DEF Zipline!Idle, Jobs, Knows
<1>4. /\ views' \in [Items -> Nat] /\ served' \in [Items -> Nat] /\ unseen' \in [Items -> 0..MaxLost]
      /\ \A k \in Items \ {i} : views'[k] = views[k] /\ served'[k] = served[k] /\ unseen'[k] = unseen[k]
      /\ views'[i] \in {views[i], views[i] + 1} /\ served'[i] \in {served[i], served[i] + 1}
      /\ unseen'[i] \in {unseen[i], unseen[i] + 1}
      /\ i \in there => served'[i] + views[i] + unseen[i] = served[i] + views'[i] + unseen'[i]
  <2>1. CASE Zipline!Count(o)
    BY <1>1, <1>2, <2>1 DEF Zipline!Count, Zipline!rest
  <2>2. CASE Zipline!CountFails(o)
    <3>1. unseen[i] < MaxLost /\ served' = [served EXCEPT ![i] = @ + 1] /\ unseen' = [unseen EXCEPT ![i] = @ + 1]
          /\ UNCHANGED views
      BY <1>1, <2>2 DEF Zipline!CountFails
    <3>2. unseen[i] + 1 \in 0..MaxLost
      BY <1>2, <3>1 DEF Zipline!ReferenceViewsAssumption
    <3> QED BY <1>2, <3>1, <3>2
  <2> QED BY <2>1, <2>2
<1>5. CountersTyped'
  <2>1. job' \in [Handler \union Task -> Jobs] /\ \A p \in Handler \union Task : Knows(job'[p])
    BY <1>0, <1>3 DEF CountersTyped
  <2> QED BY <1>0, <1>4, <2>1 DEF CountersTyped, Knows
<1>6. RowsCounted'
  <2>1. \A k \in Items : views[k] \in Nat /\ served[k] \in Nat /\ unseen[k] \in Nat /\ views'[k] \in Nat
                         /\ served'[k] \in Nat /\ unseen'[k] \in Nat
    BY <1>2, <1>4
  <2> QED BY <1>0, <1>4, <2>1 DEF RowsCounted, CountersTyped
<1>7. ASSUME NEW k \in Items, limit[k] # 0
      PROVE  served'[k] + Cardinality(Counting(k)') + 1 <= limit[k] + Cardinality(Handler) + unseen'[k]
  <2>1. CASE k = i
    <3>1. Counting(i)' = Counting(i) \ {o} /\ o \in Counting(i)
      BY <1>0, <1>1, <1>3 DEF Counting
    <3>2. Cardinality(Counting(i)') = Cardinality(Counting(i)) - 1
      BY <3>1, HandlersFinite, FS_RemoveElement
    <3>3. served'[i] <= served[i] + 1 /\ unseen'[i] >= unseen[i] /\ served'[i] \in Nat /\ unseen'[i] \in Nat
      BY <1>2, <1>4
    <3>4. served[i] + Cardinality(Counting(i)) + 1 <= limit[i] + Cardinality(Handler) + unseen[i]
      BY <1>0, <1>7, <2>1 DEF CountsBounded
    <3>5. served[i] \in Nat /\ unseen[i] \in Nat /\ limit[i] \in Nat /\ Cardinality(Counting(i)) \in Nat /\ Cardinality(Handler) \in Nat
      BY <1>0, HandlersFinite, CountNumbers
    <3> QED BY <2>1, <3>2, <3>3, <3>4, <3>5
  <2>2. CASE k # i
    <3>1. Counting(k)' = Counting(k)
      BY <1>0, <1>1, <1>3, <2>2 DEF Counting
    <3> QED BY <1>0, <1>4, <1>7, <2>2, <3>1 DEF CountsBounded
  <2> QED BY <2>1, <2>2
<1>8. CountsBounded'
  BY <1>0, <1>7 DEF CountsBounded
<1>9. ASSUME ReadyToGo PROVE ReadyToGo'
  <2>1. \A k \in Items : MayGo(k) => MayGo(k)'
    <3>1. \A k \in Items : views[k] \in Nat /\ views'[k] \in Nat /\ views'[k] >= views[k] /\ limit[k] \in Nat
      BY <1>0, <1>2, <1>4, CountNumbers
    <3> QED BY <1>0, <3>1 DEF MayGo, Zipline!Limited
  <2>2. \A p \in Handler \union Task : Removable(job'[p]) /\ job'[p] \in Jobs /\ Knows(job'[p])
    BY <1>0, <1>3, <1>9 DEF ReadyToGo, Removable, CountersTyped
  <2>3. \A p \in Handler \union Task : Removable(job[p])'
    BY <2>1, <2>2 DEF Removable, Jobs, Knows, Items
  <2> QED BY <2>3 DEF ReadyToGo
<1>10. Zipline!RemovesOnlySpent
  BY <1>0 DEF Zipline!RemovesOnlySpent
<1>11. ZiplineInv'
  BY <1>5, <1>6, <1>8 DEF ZiplineInv
<1>12. ReadyToGo => ReadyToGo'
  BY <1>9
<1> QED BY <1>10, <1>11, <1>12

LEMMA ZiplineStep ==
    ASSUME Zipline!ReferenceViewsAssumption, ZiplineInv, Zipline!Next
    PROVE  /\ ZiplineInv'
           /\ 0 \notin ViewLimits /\ ReadyToGo => ReadyToGo' /\ Zipline!RemovesOnlySpent
<1> DEFINE Kept == /\ ZiplineInv'
                   /\ 0 \notin ViewLimits /\ ReadyToGo => ReadyToGo' /\ Zipline!RemovesOnlySpent
<1> USE DEF Zipline!rest, Zipline!doors, Zipline!Goes, Zipline!Goto, Zipline!Finish
<1>0. /\ CountersTyped /\ job \in [Handler \union Task -> Jobs]
      /\ Zipline!Item = Items /\ File \subseteq Items /\ Url \subseteq Items /\ NoItem \notin Items
      /\ \A i \in Items : limit[i] \in ViewLimits /\ limit[i] \in Nat /\ views[i] \in Nat
  BY CountNumbers DEF ZiplineInv, CountersTyped, Items, Zipline!Item, Zipline!ReferenceViewsAssumption
<1>i. Zipline!Idle \in Jobs /\ Knows(Zipline!Idle) /\ Removable(Zipline!Idle) /\ Zipline!Idle.pc = "idle"
  BY DEF Jobs, Zipline!Idle, Knows, Removable
(* A visit begins: with the item's removal, or with what was decided.      *)
<1>v. ASSUME NEW o \in Handler, NEW pc \in {"read", "stream", "count", "dropObj", "dropRow"},
             NEW v \in Browser \union {NoItem}, NEW i \in Items, Zipline!Goes(o, pc, v, i),
             pc \in {"read", "stream", "dropObj"} => i \in File,
             pc \in {"read", "count"} => i \in there /\ (limit[i] # 0 => views[i] + 1 <= limit[i]),
             pc \in {"dropObj", "dropRow"} => MayGo(i),
             UNCHANGED <<there, views, object, due, served, unseen, limit>>
      PROVE  Kept
  <2> DEFINE j == [Zipline!Idle EXCEPT !.pc = pc, !.who = v, !.item = i]
  <2>1. /\ j \in Jobs /\ j.pc = pc /\ j.item = i
    BY DEF Jobs, Zipline!Idle
  <2>2. job' = [job EXCEPT ![o] = j]
    BY <1>v
  <2> HIDE DEF j
  <2>3. Knows(j) /\ Removable(j)
    BY <1>v, <2>1 DEF Knows, Removable
  <2>4. Zipline!RemovesOnlySpent
    BY <1>v DEF Zipline!RemovesOnlySpent
  <2>5. there' \subseteq there /\ due \subseteq due' /\ UNCHANGED <<views, limit, served, unseen>>
    BY <1>v
  <2>6. j.pc \in {"read", "count"} => j.item \in there /\ (limit[j.item] # 0 => views[j.item] + 1 <= limit[j.item])
    BY <1>v, <2>1
  <2> QED BY <2>1, <2>2, <2>3, <2>4, <2>5, <2>6, JobChanges
<1>f. ASSUME NEW o \in Handler, NEW i \in Items, Zipline!Removes(o, i), MayGo(i),
             UNCHANGED <<there, views, object, due, served, unseen, limit>>
      PROVE  Kept
  <2>1. CASE i \in File
    BY <1>f, <1>v, <2>1 DEF Zipline!Removes
  <2>2. CASE i \notin File
    BY <1>f, <1>v, <2>2 DEF Zipline!Removes
  <2> QED BY <2>1, <2>2
<1>1. ASSUME NEW o \in Handler, NEW v \in Browser, NEW f \in File, NEW isView \in BOOLEAN, Zipline!Raw(o, v, f, isView)
      PROVE  Kept
  <2> DEFINE counts == isView /\ <<v, f>> \notin recent
             future == views[f] + IF counts THEN 1 ELSE 0
  <2>1. /\ f \in Items /\ f \in there /\ UNCHANGED <<there, views, object, due, served, unseen, limit>>
        /\ \/ f \in due /\ Zipline!Removes(o, f)
           \/ Zipline!Over(f, future) /\ Zipline!Removes(o, f)
           \/ ~Zipline!Over(f, future) /\ Zipline!Goes(o, IF counts THEN "read" ELSE "stream", v, f)
    BY <1>0, <1>1, Zenon DEF Zipline!Raw, Zipline!rest
  <2>2. CASE f \in due /\ Zipline!Removes(o, f)
    BY <1>f, <2>1, <2>2 DEF MayGo
  <2>3. CASE Zipline!Over(f, future) /\ Zipline!Removes(o, f)
    <3>1. MayGo(f)
      BY <1>0, <2>1, <2>3 DEF MayGo, Zipline!Over, Zipline!Limited
    <3> QED BY <1>f, <2>1, <2>3, <3>1
  <2>4. CASE ~Zipline!Over(f, future) /\ Zipline!Goes(o, IF counts THEN "read" ELSE "stream", v, f)
    <3>1. CASE counts
      <4>1. limit[f] # 0 => views[f] + 1 <= limit[f]
        BY <1>0, <2>1, <2>4, <3>1 DEF Zipline!Over
      <4>2. Zipline!Goes(o, "read", v, f)
        BY <2>4, <3>1
      <4> QED BY <1>v, <2>1, <4>1, <4>2
    <3>2. CASE ~counts
      <4>1. Zipline!Goes(o, "stream", v, f)
        BY <2>4, <3>2
      <4> QED BY <1>v, <2>1, <4>1
    <3> QED BY <3>1, <3>2
  <2> QED BY <2>1, <2>2, <2>3, <2>4
<1>2. ASSUME NEW o \in Handler, NEW v \in Browser, NEW f \in File, Zipline!FilesRoute(o, v, f)
      PROVE  Kept
  BY <1>1, <1>2 DEF Zipline!FilesRoute
<1>3. ASSUME NEW o \in Handler, NEW v \in Browser, NEW f \in File, Zipline!OwnRaw(o, v, f)
      PROVE  Kept
  <2>1. /\ f \in Items /\ UNCHANGED <<there, views, object, due, served, unseen, limit>>
        /\ \/ f \in due /\ Zipline!Removes(o, f)
           \/ Zipline!Limited(f, views[f]) /\ Zipline!Removes(o, f)
           \/ Zipline!Goes(o, "stream", v, f)
    BY <1>0, <1>3 DEF Zipline!OwnRaw
  <2> QED BY <1>f, <1>v, <2>1 DEF MayGo
<1>4. ASSUME NEW o \in Handler, NEW v \in Browser, NEW u \in Url, Zipline!VisitUrl(o, v, u) \/ Zipline!UrlPage(o, v, u)
      PROVE  Kept
  <2>1. /\ u \in Items /\ u \in there /\ UNCHANGED <<there, views, object, due, served, unseen, limit>>
        /\ \/ Zipline!Limited(u, views[u]) /\ Zipline!Removes(o, u)
           \/ ~Zipline!Limited(u, views[u]) /\ Zipline!Goes(o, "count", v, u)
           \/ UNCHANGED job
    BY <1>0, <1>4 DEF Zipline!VisitUrl, Zipline!UrlPage, Zipline!Visit
  <2>2. CASE Zipline!Limited(u, views[u]) /\ Zipline!Removes(o, u)
    BY <1>f, <2>1, <2>2 DEF MayGo
  <2>3. CASE ~Zipline!Limited(u, views[u]) /\ Zipline!Goes(o, "count", v, u)
    <3>1. limit[u] # 0 => views[u] + 1 <= limit[u]
      BY <1>0, <2>1, <2>3 DEF Zipline!Limited
    <3> QED BY <1>v, <2>1, <2>3, <3>1
  <2>4. CASE UNCHANGED job
    <3>1. job' = [job EXCEPT ![o] = job[o]] /\ job[o] \in Jobs /\ Knows(job[o])
      BY <1>0, <2>4 DEF CountersTyped
    <3>2. Zipline!RemovesOnlySpent
      BY <2>1 DEF Zipline!RemovesOnlySpent
    <3> QED BY <2>1, <3>1, <3>2, JobChanges DEF ReadyToGo
  <2> QED BY <2>1, <2>2, <2>3, <2>4
(* A step of a request at work.                                            *)
<1>g. ASSUME NEW o \in Handler \union Task, NEW j \in Jobs, Knows(j), Removable(j), job' = [job EXCEPT ![o] = j],
             UNCHANGED <<there, views, object, due, served, unseen, limit>>,
             j.pc \in {"read", "count"} => j.item = job[o].item /\ job[o].pc \in {"read", "count"}
      PROVE  Kept
  <2>1. Zipline!RemovesOnlySpent
    BY <1>g DEF Zipline!RemovesOnlySpent
  <2> QED BY <1>g, <2>1, JobChanges
<1>5. ASSUME NEW o \in Handler, Zipline!ReadObject(o)
      PROVE  Kept
  <2>1. UNCHANGED <<there, views, object, due, served, unseen, limit>> /\ job[o].pc \in {"read", "stream"} /\ job[o] \in Jobs
    BY <1>0, <1>5 DEF Zipline!ReadObject
  <2>2. CASE Zipline!Finish(o)
    BY <1>g, <1>i, <2>1, <2>2
  <2>3. CASE ~Zipline!Finish(o)
    <3> DEFINE j == [job[o] EXCEPT !.pc = "count"]
    <3>1. job[o].pc = "read" /\ job' = [job EXCEPT ![o] = j]
      BY <1>0, <1>5, <2>3 DEF Zipline!ReadObject
    <3>2. j \in Jobs /\ j.pc = "count" /\ j.item = job[o].item
      BY <2>1 DEF Jobs
    <3>3. job[o].item \in Items
      BY <1>0, <3>1 DEF CountersTyped, Knows
    <3> HIDE DEF j
    <3>4. Knows(j) /\ Removable(j)
      BY <3>2, <3>3 DEF Knows, Removable
    <3> QED BY <1>g, <2>1, <3>1, <3>2, <3>4
  <2> QED BY <2>2, <2>3
<1>6. ASSUME NEW o \in Handler, Zipline!Count(o) \/ Zipline!CountFails(o)
      PROVE  Kept
  <2>1. CountersTyped /\ ZiplineInv' /\ (ReadyToGo => ReadyToGo') /\ Zipline!RemovesOnlySpent
    BY <1>0, <1>6, VisitCounts
  <2> QED BY <2>1
<1>7. ASSUME NEW o \in Handler, Zipline!DropObject(o) \/ Zipline!DropRow(o)
      PROVE  Kept
  <2>1. /\ UNCHANGED <<views, due, served, unseen, limit>> /\ there' \subseteq there
        /\ job[o].pc \in {"dropObj", "dropRow"} /\ job[o] \in Jobs /\ job[o].item \in Items
        /\ there \ there' \subseteq {job[o].item} /\ object \ object' \subseteq {job[o].item}
    BY <1>0, <1>7 DEF Zipline!DropObject, Zipline!DropRow, CountersTyped, Knows
  <2>2. PICK j \in Jobs : /\ job' = [job EXCEPT ![o] = j] /\ j.pc \in {"idle", "dropRow"}
                          /\ j.pc = "dropRow" => j.item = job[o].item
    <3>1. CASE Zipline!DropObject(o)
      <4>1. /\ [job[o] EXCEPT !.pc = "dropRow"] \in Jobs /\ [job[o] EXCEPT !.pc = "dropRow"].pc = "dropRow"
            /\ [job[o] EXCEPT !.pc = "dropRow"].item = job[o].item
        BY <2>1 DEF Jobs
      <4>2. job' = [job EXCEPT ![o] = [job[o] EXCEPT !.pc = "dropRow"]]
        BY <1>0, <3>1 DEF Zipline!DropObject
      <4> QED BY <4>1, <4>2
    <3>2. CASE Zipline!DropRow(o)
      BY <1>i, <3>2 DEF Zipline!DropRow
    <3> QED BY <1>7, <3>1, <3>2
  <2>3. Knows(j) /\ (ReadyToGo => Removable(j) /\ MayGo(job[o].item))
    BY <2>1, <2>2 DEF Knows, Removable, ReadyToGo
  <2>4. ReadyToGo => Zipline!RemovesOnlySpent
    BY <2>1, <2>3 DEF Zipline!RemovesOnlySpent, MayGo
  <2> QED BY <2>1, <2>2, <2>3, <2>4, JobChanges
<1>8. ASSUME NEW t \in Task, Zipline!Sweep(t)
      PROVE  Kept
  <2> DEFINE spent == {i \in there : views[i] >= limit[i]}
             j == [job[t] EXCEPT !.pc = "sweep", !.files = spent \intersect File, !.urls = spent \intersect Url]
  <2>1. /\ UNCHANGED <<there, views, object, due, served, unseen, limit>> /\ job[t] = Zipline!Idle
        /\ job' = [job EXCEPT ![t] = j] /\ job[t] \in Jobs
    BY <1>0, <1>8 DEF Zipline!Sweep
  <2>2. j \in Jobs /\ j.pc = "sweep" /\ j.files = spent \intersect File /\ j.urls = spent \intersect Url
    BY <2>1 DEF Jobs
  <2>3. 0 \notin ViewLimits => \A i \in spent : MayGo(i)
    BY <1>0 DEF MayGo, Zipline!Limited, CountersTyped
  <2> HIDE DEF spent, j
  <2>4. Knows(j) /\ (0 \notin ViewLimits => Removable(j))
    BY <2>2, <2>3 DEF Knows, Removable
  <2>5. Zipline!RemovesOnlySpent
    BY <2>1 DEF Zipline!RemovesOnlySpent
  <2> QED BY <2>1, <2>2, <2>4, <2>5, JobChanges
<1>9. ASSUME NEW t \in Task, NEW f \in File, Zipline!SweepObject(t, f)
      PROVE  Kept
  <2>1. /\ UNCHANGED <<there, views, due, served, unseen, limit, job>> /\ object \ object' \subseteq {f}
        /\ job[t].pc = "sweep" /\ f \in job[t].files /\ Knows(job[t]) /\ job[t] \in Jobs
        /\ job' = [job EXCEPT ![t] = job[t]]
    BY <1>0, <1>9 DEF Zipline!SweepObject, CountersTyped
  <2>2. ReadyToGo => Removable(job[t]) /\ Zipline!RemovesOnlySpent
    BY <2>1 DEF ReadyToGo, Removable, Zipline!RemovesOnlySpent, MayGo
  <2> QED BY <2>1, <2>2, JobChanges
<1>10. ASSUME NEW t \in Task, Zipline!SweepRows(t)
      PROVE  Kept
  <2>1. /\ UNCHANGED <<views, object, due, served, unseen, limit>> /\ there' = there \ (job[t].files \union job[t].urls)
        /\ job[t].pc = "sweep" /\ job' = [job EXCEPT ![t] = Zipline!Idle]
    BY <1>0, <1>10 DEF Zipline!SweepRows
  <2>2. ReadyToGo => Zipline!RemovesOnlySpent
    BY <2>1 DEF ReadyToGo, Removable, Zipline!RemovesOnlySpent, MayGo
  <2> QED BY <1>i, <2>1, <2>2, JobChanges
(* Steps of browsers and of time.                                          *)
<1>11. ASSUME UNCHANGED <<there, views, object, served, unseen, job, limit>>, due \subseteq due'
      PROVE  Kept
  <2>1. Zipline!RemovesOnlySpent
    BY <1>11 DEF Zipline!RemovesOnlySpent
  <2>2. ZiplineInv'
    BY <1>11 DEF ZiplineInv, CountersTyped, RowsCounted, CountsBounded, Counting, Knows
  <2>3. ReadyToGo => ReadyToGo'
    <3>1. \A i : MayGo(i) => MayGo(i)'
      BY <1>11 DEF MayGo, Zipline!Limited
    <3> QED BY <1>11, <3>1 DEF ReadyToGo, Removable
  <2> QED BY <2>1, <2>2, <2>3
<1>12. ASSUME NEW v \in Browser, NEW f \in File,
              Zipline!ViewPage(v, f) \/ Zipline!Forget(v, f) \/ Zipline!UnlockFile(v, f)
      PROVE  Kept
  BY <1>11, <1>12 DEF Zipline!ViewPage, Zipline!Forget, Zipline!UnlockFile, Zipline!Gains
<1>13. ASSUME NEW v \in Browser, NEW i \in Items, Zipline!TokenExpires(v, i) \/ Zipline!UnlockUrl(v, i)
      PROVE  Kept
  BY <1>11, <1>13 DEF Zipline!TokenExpires, Zipline!UnlockUrl, Zipline!Gains
<1>14. ASSUME NEW f \in File, Zipline!Expire(f)
      PROVE  Kept
  BY <1>11, <1>14 DEF Zipline!Expire
<1> HIDE DEF Kept
<1>15. Kept
  BY <1>0, <1>1, <1>2, <1>3, <1>4, <1>5, <1>6, <1>7, <1>8, <1>9, <1>10, <1>12, <1>13, <1>14 DEF Zipline!Next
<1> QED BY <1>15 DEF Kept

LEMMA ZiplineStarts ==
    ASSUME Zipline!ReferenceViewsAssumption, Zipline!Init
    PROVE  ZiplineInv /\ ReadyToGo
<1>1. /\ Zipline!Item = Items /\ Zipline!Idle \in Jobs /\ Knows(Zipline!Idle) /\ Zipline!Idle.pc = "idle" /\ 0 \in 0..MaxLost
      /\ \A o \in Handler \union Task : job[o] = Zipline!Idle
      /\ \A i \in Items : served[i] = 0 /\ views[i] = 0 /\ unseen[i] = 0
  BY DEF Zipline!Init, Zipline!Item, Items, Zipline!Idle, Jobs, Knows, Zipline!ReferenceViewsAssumption
<1>2. CountersTyped
  BY <1>1 DEF CountersTyped, Zipline!Init
<1>3. RowsCounted
  BY <1>1, <1>2 DEF RowsCounted, CountersTyped
<1>4. \A i \in Items : Counting(i) = {}
  BY <1>1 DEF Counting
<1>5. CountsBounded
  <2>1. ASSUME NEW i \in Items, limit[i] # 0
        PROVE  served[i] + Cardinality(Counting(i)) + 1 <= limit[i] + Cardinality(Handler) + unseen[i]
    <3>1. Cardinality(Counting(i)) = 0
      BY <1>4, FS_EmptySet
    <3>2. limit[i] \in Nat /\ Cardinality(Handler) \in Nat
      BY <1>2, CountNumbers, HandlersFinite
    <3> QED BY <1>1, <2>1, <3>1, <3>2
  <2> QED BY <2>1 DEF CountsBounded
<1>6. ReadyToGo
  BY <1>1 DEF ReadyToGo, Removable
<1> QED BY <1>2, <1>3, <1>5, <1>6 DEF ZiplineInv

(* The servers side by side.                                               *)
CountersInv == /\ instance \in {"steady", "patched", "zipline", "invites"}
               /\ IF instance = "zipline" THEN ZiplineInv ELSE ViewsInv

GoesInv == /\ instance = "steady" => SpentGoes
           /\ instance = "zipline" => ReadyToGo

LEMMA CountersStart ==
    ASSUME Patched!ViewLimitAssumption, Zipline!ReferenceViewsAssumption, SideBySide
    PROVE  CountersInv /\ GoesInv
<1>1. Patched!Init /\ Zipline!Init /\ instance \in {"steady", "patched", "zipline", "invites"}
  BY SteadyIsPatched DEF SideBySide
<1>2. ViewsInv
  BY <1>1, ViewsStart
<1>3. SpentGoes
  BY <1>1 DEF SpentGoes, Patched!Init, Patched!Idle
<1> QED BY <1>1, <1>2, <1>3, ZiplineStarts DEF CountersInv, GoesInv

LEMMA CountersStep ==
    ASSUME Patched!ViewLimitAssumption, Zipline!ReferenceViewsAssumption, CountersInv, [MCNext]_allVars
    PROVE  /\ CountersInv'
           /\ 0 \notin ViewLimits /\ GoesInv =>
                /\ GoesInv'
                /\ [/\ instance = "steady" => Steady!RemovesOnlySpent
                    /\ instance = "zipline" => Zipline!RemovesOnlySpent]_viewVars
<1>1. CASE instance = "steady" /\ Steady!Next /\ UNCHANGED instance
  <2>1. Patched!Next
    BY <1>1, SteadyIsPatched
  <2>2. ViewsInv /\ ViewsInv'
    BY <1>1, <2>1, ViewsTypeStep, ViewsStep DEF CountersInv, ViewsInv
  <2>3. SpentGoes => SpentGoes' /\ Steady!RemovesOnlySpent
    BY <1>1, <2>2, SteadySpent DEF ViewsInv
  <2> QED BY <1>1, <2>2, <2>3 DEF CountersInv, GoesInv
<1>2. CASE instance = "patched" /\ Patched!Next /\ UNCHANGED instance
  <2>1. ViewsInv /\ ViewsInv'
    BY <1>2, ViewsTypeStep, ViewsStep DEF CountersInv, ViewsInv
  <2> QED BY <1>2, <2>1 DEF CountersInv, GoesInv
<1>3. CASE instance = "zipline" /\ Zipline!Next /\ UNCHANGED instance
  <2>1. ZiplineInv' /\ (0 \notin ViewLimits /\ ReadyToGo => ReadyToGo' /\ Zipline!RemovesOnlySpent)
    BY <1>3, ZiplineStep DEF CountersInv
  <2> QED BY <1>3, <2>1 DEF CountersInv, GoesInv
<1>4. CASE UNCHANGED <<viewVars, instance>>
  <2>1. UNCHANGED <<there, views, limit, object, served, unseen, peak, work, due, locked, asked, token, recent, job, instance>>
    BY <1>4 DEF viewVars, goVars, tsVars
  <2>2. ViewsInv => ViewsInv'
    BY <2>1 DEF ViewsInv, Patched!TypeOK, ViewsCounted, ViewsBounded, Viewing
  <2>3. ZiplineInv => ZiplineInv'
    BY <2>1 DEF ZiplineInv, CountersTyped, RowsCounted, CountsBounded, Counting, Knows
  <2>4. GoesInv => GoesInv'
    BY <2>1 DEF GoesInv, SpentGoes, ReadyToGo, Removable, MayGo, Zipline!Limited
  <2> QED BY <1>4, <2>1, <2>2, <2>3, <2>4 DEF CountersInv
<1> QED BY <1>1, <1>2, <1>3, <1>4 DEF MCNext, allVars

(* On either server a view limit is overshot by no more than the requests  *)
(* handled at once less one, and the views that could not be counted: for  *)
(* any files, URLs, limits, browsers and requests.                         *)
THEOREM ViewsOvershoot ==
    ASSUME Patched!ViewLimitAssumption, Zipline!ReferenceViewsAssumption
    PROVE  SideBySide /\ [][MCNext]_allVars => []OvershootBounded
<1>1. SideBySide => CountersInv
  BY CountersStart
<1>2. CountersInv /\ [MCNext]_allVars => CountersInv'
  BY CountersStep
<1>3. CountersInv => OvershootBounded
  <2>1. CASE instance = "zipline"
    <3>1. Zipline!Cardinality(Handler) = Cardinality(Handler) /\ Zipline!Item = Items
      BY DEF Zipline!Cardinality, Cardinality, Zipline!Item, Items
    <3>2. ZiplineInv => Zipline!OvershootBounded
      BY <3>1, CountNumbers, HandlersFinite DEF ZiplineInv, CountsBounded, Zipline!OvershootBounded
    <3> QED BY <2>1, <3>2 DEF CountersInv, OvershootBounded
  <2>2. CASE instance # "zipline"
    <3>1. ViewsInv => Patched!OvershootBounded
      BY AdmittedFinite, ViewNumbers, SameCardinality DEF ViewsInv, ViewsBounded, Patched!OvershootBounded
    <3> QED BY <2>2, <3>1, SteadyIsPatched DEF CountersInv, OvershootBounded
  <2> QED BY <2>1, <2>2
<1> QED BY <1>1, <1>2, <1>3, PTL

(* As long as no limit is changed, neither row nor object goes before its  *)
(* item has had the views of its limit: on the TypeScript server if nobody *)
(* sets a limit of 0, which the handlers take for none and the task for    *)
(* one that is reached.                                                    *)
THEOREM SpentOnly ==
    ASSUME Patched!ViewLimitAssumption, Zipline!ReferenceViewsAssumption, 0 \notin ViewLimits
    PROVE  SideBySide /\ [][MCNext]_allVars => OnlySpentRemoved
<1>1. SideBySide => CountersInv /\ GoesInv
  BY CountersStart
<1>2. CountersInv /\ GoesInv /\ [MCNext]_allVars =>
        /\ CountersInv' /\ GoesInv'
        /\ [/\ instance = "steady" => Steady!RemovesOnlySpent
            /\ instance = "zipline" => Zipline!RemovesOnlySpent]_viewVars
  BY CountersStep
<1> QED BY <1>1, <1>2, PTL DEF OnlySpentRemoved
=============================================================================
