---------------------------- MODULE Mixer_proofs -----------------------------
(***************************************************************************)
(* The ids of a mixer handle lead to its controls, and the controls to     *)
(* those of the backends, for every set of kinds and any number of         *)
(* controls and clients.                                                   *)
(***************************************************************************)
EXTENDS MixerProperties, SequenceTheorems, FiniteSetTheorems, TLAPS

ElemType == {Elem(g, kind) : g \in Groups, kind \in Kinds}

Typed ==
  /\ group \in Groups /\ grps \subseteq Groups /\ late \subseteq Groups
  /\ driver \in [Groups -> Seq(ElemType)]
  /\ ctl \in [Groups -> Seq(Nat)]

(* total_count counts what both groups hold, a group that holds something  *)
(* is pointed to, and no group holds more than its backend has.            *)
CountsAgree ==
  /\ total_count = Len(ctl["hw"]) + Len(ctl["plug"])
  /\ \A g \in Groups : Len(ctl[g]) <= Len(driver[g])
  /\ \A g \in Groups \ grps : ctl[g] = <<>>
  /\ pc \in {"card_info", "add"} => group \in grps

(* The group that is being opened has no controls yet.                     *)
Order ==
  /\ pc \in {"none", "grp_open", "card_info", "add"} => ctl[group] = <<>>
  /\ pc \in {"none", "grp_open", "card_info", "add", "err_card_info"} /\ group = "hw" =>
       ctl["plug"] = <<>>

(* The numid of a backend's n-th control.                                  *)
NumidAt(g, n) == FirstNumid(g) + n - 1

Listed ==
  \A g \in Groups : g = "hw" \/ g \notin late =>
    \A n \in 1 .. Len(ctl[g]) : ctl[g][n] = NumidAt(g, n)

IInv == Typed /\ CountsAgree /\ Order /\ Listed

------------------------------------------------------------------------------
(* Sequences of controls                                                   *)

(* The offset from which a group's backend starts to list its controls.    *)
Offset(g) == IF g = "hw" THEN Len(ctl[g]) ELSE 0

LEMMA Numids ==
  ASSUME NEW g \in Groups, NEW n \in Nat \ {0}
  PROVE  NumidAt(g, n) \in Nat
BY DEF NumidAt, FirstNumid

(* What add_controls found: some of the backend's next controls.           *)
LEMMA AddedControls ==
  ASSUME Typed, CountsAgree, NEW g \in Groups, NEW added \in add_controls(g)
  PROVE  /\ added.ids \in Seq(Nat)
         /\ Len(added.ids) <= Len(driver[g]) - Len(ctl[g])
         /\ \A n \in 1 .. Len(added.ids) :
              added.ids[n] = NumidAt(g, Offset(g) + n)
<1> DEFINE space == Len(driver[g]) - Len(ctl[g])
           new == ElemList(g, Len(ctl[g]), space)
<1>1. space \in Nat /\ Len(ctl[g]) \in Nat
  BY DEF Typed, CountsAgree
<1>2. /\ new \in Seq(Nat) /\ Len(new) = space
      /\ \A n \in 1 .. space :
           new[n] = NumidAt(g, Offset(g) + n)
  <2> HIDE DEF space
  <2>1. \A n \in 1 .. space : Offset(g) + n \in Nat \ {0}
    BY <1>1 DEF Offset
  <2>2. new = [n \in 1 .. space |-> NumidAt(g, Offset(g) + n)]
    <3>1. \A n \in 1 .. space :
            (IF g = "hw" THEN FirstNumid(g) + Len(ctl[g]) + n - 1
                         ELSE FirstNumid(g) + n - 1)
              = NumidAt(g, Offset(g) + n)
      BY <1>1 DEF Offset, NumidAt, FirstNumid
    <3> QED
      BY <3>1 DEF ElemList
  <2>3. new \in [1 .. space -> Nat]
    BY <2>1, <2>2, Numids
  <2> HIDE DEF new
  <2>4. new \in Seq(Nat) /\ Len(new) = space
    BY <1>1, <2>3
  <2> QED
    BY <2>2, <2>4
<1>3. CASE added.ids = <<>>
  BY <1>1, <1>3
<1>4. CASE \E n \in Supported(g, new) : added.ids = SubSeq(new, 1, n)
  <2> HIDE DEF new
  <2>1. PICK n \in 0 .. Len(new) : added.ids = SubSeq(new, 1, n)
    BY <1>4 DEF Supported
  <2>2. SubSeq(new, 1, n) \in Seq(Nat) /\ Len(SubSeq(new, 1, n)) = n
    BY <1>2, <2>1, SubSeqProperties
  <2>3. \A i \in 1 .. n : SubSeq(new, 1, n)[i] = new[i]
    BY <1>2, <2>1, SubSeqProperties
  <2>4. added.ids \in Seq(Nat) /\ Len(added.ids) = n /\ n <= space
    BY <1>1, <1>2, <2>1, <2>2
  <2>5. \A i \in 1 .. n : added.ids[i] = NumidAt(g, Offset(g) + i)
    <3>1. \A i \in 1 .. n : i \in 1 .. space
      BY <1>1, <2>4, <2>1, <1>2
    <3> QED
      BY <1>2, <2>1, <2>3, <3>1
  <2> QED
    BY <2>4, <2>5
<1>5. added.ids = <<>> \/ \E n \in Supported(g, new) : added.ids = SubSeq(new, 1, n)
  <2>1. \/ added = [ids |-> <<>>, ret |-> -1, array |-> {}]
        \/ \E n \in Supported(g, new) :
             added = [ids |-> SubSeq(new, 1, n),
                      ret |-> IF n = Len(new) THEN 0 ELSE -1,
                      array |-> IF new = <<>> THEN {} ELSE Res(g, {"ctl"})]
    BY DEF add_controls
  <2> HIDE DEF new
  <2> QED
    BY <2>1
<1> QED
  BY <1>3, <1>4, <1>5

(* A group's controls and the ones that were added.                        *)
LEMMA Appended ==
  ASSUME Typed, CountsAgree, NEW g \in Groups, NEW added \in add_controls(g)
  PROVE  LET all == ctl[g] \o added.ids
         IN  /\ added.ids \in Seq(Nat)
             /\ all \in Seq(Nat)
             /\ Len(all) = Len(ctl[g]) + Len(added.ids)
             /\ Len(all) <= Len(driver[g])
             /\ (\A n \in 1 .. Len(ctl[g]) : ctl[g][n] = NumidAt(g, n))
                  /\ (g = "hw" \/ ctl[g] = <<>> \/ added.ids = <<>>) =>
                  \A n \in 1 .. Len(all) : all[n] = NumidAt(g, n)
<1> DEFINE all == ctl[g] \o added.ids
           old == Len(ctl[g])
           more == Len(added.ids)
<1>1. /\ ctl[g] \in Seq(Nat) /\ driver[g] \in Seq(ElemType)
      /\ old \in Nat /\ Len(driver[g]) \in Nat
  BY DEF Typed
<1>2. added.ids \in Seq(Nat) /\ more \in Nat /\ more <= Len(driver[g]) - old
  BY AddedControls, LenProperties
<1>3. \A n \in 1 .. more : added.ids[n] = NumidAt(g, Offset(g) + n)
  BY AddedControls
<1>4. /\ all \in Seq(Nat)
      /\ Len(all) = old + more
      /\ \A n \in 1 .. Len(all) :
           all[n] = IF n <= old THEN ctl[g][n] ELSE added.ids[n - old]
  BY <1>1, <1>2, ConcatProperties
<1>5. ASSUME \A n \in 1 .. old : ctl[g][n] = NumidAt(g, n),
             g = "hw" \/ ctl[g] = <<>> \/ added.ids = <<>>,
             NEW n \in 1 .. Len(all)
      PROVE  all[n] = NumidAt(g, n)
  <2> HIDE DEF all, old, more
  <2>1. CASE n <= old
    <3>1. n \in 1 .. old /\ all[n] = ctl[g][n]
      BY <1>1, <1>2, <1>4, <2>1
    <3> QED
      BY <1>5, <3>1
  <2>2. CASE ~(n <= old)
    <3>1. n - old \in 1 .. more /\ all[n] = added.ids[n - old]
      BY <1>1, <1>2, <1>4, <2>2
    <3>2. all[n] = NumidAt(g, Offset(g) + (n - old))
      BY <1>3, <3>1
    <3>3. Offset(g) = old
      <4>1. added.ids # <<>>
        BY <1>2, <3>1 DEF more
      <4>2. CASE g = "hw"
        BY <4>2 DEF Offset, old
      <4>3. CASE g # "hw" /\ ctl[g] = <<>>
        BY <4>3 DEF Offset, old
      <4> QED
        BY <1>5, <4>1, <4>2, <4>3
    <3> QED
      BY <1>1, <3>2, <3>3
  <2> QED
    BY <2>1, <2>2
<1>6. (\A n \in 1 .. old : ctl[g][n] = NumidAt(g, n))
        /\ (g = "hw" \/ ctl[g] = <<>> \/ added.ids = <<>>) =>
        \A n \in 1 .. Len(all) : all[n] = NumidAt(g, n)
  BY <1>5
<1>7. Len(all) <= Len(driver[g])
  <2> HIDE DEF all, old, more
  <2> QED
    BY <1>1, <1>2, <1>4
<1> QED
  BY <1>2, <1>4, <1>6, <1>7

------------------------------------------------------------------------------
(* The invariant                                                           *)

LEMMA GroupsInitHolds == GroupsInit => IInv
<1> SUFFICES ASSUME GroupsInit PROVE IInv
  OBVIOUS
<1>1. \A g \in Groups : ctl[g] = <<>> /\ driver[g] = <<>>
  BY DEF GroupsInit
<1>2. Typed
  BY DEF GroupsInit, Typed, Groups
<1>3. CountsAgree
  BY <1>1 DEF GroupsInit, CountsAgree, Groups
<1>4. Order
  BY <1>1 DEF GroupsInit, Order, Groups
<1>5. Listed
  BY <1>1 DEF Listed
<1> QED
  BY <1>2, <1>3, <1>4, <1>5 DEF IInv

(* Steps that leave the groups' controls and backends alone.               *)
Quiet ==
  /\ UNCHANGED <<ctl, driver, late, total_count>>
  /\ group' \in Groups
  /\ grps \subseteq grps' /\ grps' \subseteq Groups
  /\ pc' \in {"card_info", "add"} => group' \in grps'
  /\ pc' \in {"none", "grp_open", "card_info", "add"} => ctl[group'] = <<>>
  /\ pc' \in {"none", "grp_open", "card_info", "add", "err_card_info"}
       /\ group' = "hw" => ctl["plug"] = <<>>

LEMMA QuietHolds == IInv /\ Quiet => IInv'
<1> SUFFICES ASSUME IInv, Quiet PROVE IInv'
  OBVIOUS
<1>1. Typed'
  BY DEF IInv, Typed, Quiet
<1>2. CountsAgree'
  BY DEF IInv, CountsAgree, Quiet
<1>3. Order'
  BY DEF Order, Quiet
<1>4. Listed'
  BY DEF IInv, Listed, Quiet, NumidAt, FirstNumid
<1> QED
  BY <1>1, <1>2, <1>3, <1>4 DEF IInv

LEMMA QuietStep ==
  ASSUME IInv, HandleStep \/ mixer_close, ~OpenControls
  PROVE  IInv'
<1> DEFINE Before ==
      /\ group \in Groups /\ grps \subseteq Groups
      /\ pc \in {"card_info", "add"} => group \in grps
<1>0. Before /\ Order
  BY DEF IInv, Typed, CountsAgree
<1> USE <1>0 DEF Quiet, Order, Groups, mixer
<1>1. CASE mixer_open
  <2>1. Quiet
    BY <1>1 DEF mixer_open
  <2> QED
    BY <2>1, QuietHolds
<1>2. CASE mixer_grp_open
  <2>1. UNCHANGED <<ctl, driver, late, total_count>>
    BY <1>2 DEF mixer_grp_open
  <2>2. CASE GroupDone /\ UNCHANGED grps
    BY <1>2, <2>1, <2>2, QuietHolds DEF mixer_grp_open, GroupDone
  <2>3. CASE pc' = "card_info" /\ grps' = grps \cup {group} /\ UNCHANGED group
    BY <1>2, <2>1, <2>3, QuietHolds DEF mixer_grp_open
  <2> QED
    BY <1>2, <2>2, <2>3 DEF mixer_grp_open
<1>3. CASE SampleOpenFails
  BY <1>3, QuietHolds DEF SampleOpenFails
<1>4. CASE CardInfo
  BY <1>4, QuietHolds DEF CardInfo
<1>5. CASE ErrCardInfo
  BY <1>5, QuietHolds DEF ErrCardInfo, GroupDone
<1>6. CASE OpenEnd
  BY <1>6, QuietHolds DEF OpenEnd
<1>7. CASE UseDangling
  BY <1>7, QuietHolds DEF UseDangling
<1>8. CASE mixer_close
  BY <1>8, QuietHolds DEF mixer_close
<1> QED
  BY <1>1, <1>2, <1>3, <1>4, <1>5, <1>6, <1>7, <1>8 DEF HandleStep

(* Sums of lengths, for a prover that reorders them for plain numbers only. *)
LEMMA SumSwaps ==
  ASSUME NEW a \in Nat, NEW b \in Nat, NEW c \in Nat
  PROVE  a + b + c = (a + c) + b
OBVIOUS

LEMMA SumRegroups ==
  ASSUME NEW a \in Nat, NEW b \in Nat, NEW c \in Nat
  PROVE  a + b + c = a + (b + c)
OBVIOUS

LEMMA SumPairs ==
  ASSUME NEW a \in Nat, NEW b \in Nat, NEW c \in Nat, NEW d \in Nat
  PROVE  a + b + c + d = (a + c) + (b + d)
OBVIOUS

LEMMA OpenControlsStep == IInv /\ OpenControls => IInv'
<1> SUFFICES ASSUME IInv, OpenControls PROVE IInv'
  OBVIOUS
<1>1. PICK added \in add_controls(group) :
        /\ ctl' = [ctl EXCEPT ![group] = @ \o added.ids]
        /\ total_count' = total_count + Counted(added)
        /\ IF added.ret = 0 THEN GroupDone
                            ELSE pc' = "err_card_info" /\ UNCHANGED group
  BY DEF OpenControls
<1> DEFINE all == ctl[group] \o added.ids
<1>2. /\ pc = "add" /\ group \in Groups /\ group \in grps
      /\ ctl[group] = <<>>
      /\ UNCHANGED <<grps, driver, late>>
  BY DEF OpenControls, IInv, Typed, CountsAgree, Order
<1>3. /\ added.ids \in Seq(Nat) /\ all \in Seq(Nat)
      /\ Len(all) = Len(ctl[group]) + Len(added.ids)
      /\ Len(all) <= Len(driver[group])
      /\ (\A n \in 1 .. Len(ctl[group]) : ctl[group][n] = NumidAt(group, n)) =>
           \A n \in 1 .. Len(all) : all[n] = NumidAt(group, n)
  BY <1>2, Appended DEF IInv
<1>4. /\ ctl'[group] = all
      /\ \A g \in Groups \ {group} : ctl'[g] = ctl[g]
      /\ ctl' \in [Groups -> Seq(Nat)]
  BY <1>1, <1>2, <1>3 DEF IInv, Typed
<1>5. pc' \in {"grp_open", "open_end", "err_card_info"}
      /\ (pc' = "grp_open" => group = "hw") /\ group' \in Groups
      /\ (group' = "hw" => group = "hw")
      /\ (pc' = "grp_open" => group' = "plug")
      /\ (pc' = "err_card_info" => group' = group)
  BY <1>1, <1>2 DEF GroupDone, Groups
<1> HIDE DEF all
<1>6. Typed'
  BY <1>2, <1>4, <1>5 DEF IInv, Typed
<1>7. CountsAgree'
  <2>1. total_count' = Len(ctl'["hw"]) + Len(ctl'["plug"])
    <3>1. total_count' = Len(ctl["hw"]) + Len(ctl["plug"]) + Len(added.ids)
      BY <1>1 DEF IInv, CountsAgree, Counted
    <3>2. Len(ctl["hw"]) \in Nat /\ Len(ctl["plug"]) \in Nat
          /\ Len(added.ids) \in Nat
      BY <1>3, LenProperties DEF IInv, Typed, Groups
    <3> DEFINE h == Len(ctl["hw"])
               v == Len(ctl["plug"])
               more == Len(added.ids)
               h1 == Len(ctl'["hw"])
               v1 == Len(ctl'["plug"])
    <3>nat. h \in Nat /\ v \in Nat /\ more \in Nat
      BY <3>2
    <3>3. CASE group = "hw"
      <4>1. h1 = h + more /\ v1 = v
        BY <1>3, <1>4, <3>3 DEF Groups
      <4> HIDE DEF h, v, more, h1, v1
      <4>2. h + v + more = (h + more) + v
        BY <3>nat, SumSwaps
      <4>3. total_count' = h1 + v1
        BY <3>1, <4>1, <4>2, Zenon DEF h, v, more
      <4> QED
        BY <4>3 DEF h1, v1
    <3>4. CASE group = "plug"
      <4>1. h1 = h /\ v1 = v + more
        BY <1>3, <1>4, <3>4 DEF Groups
      <4> HIDE DEF h, v, more, h1, v1
      <4>2. h + v + more = h + (v + more)
        BY <3>nat, SumRegroups
      <4>3. total_count' = h1 + v1
        BY <3>1, <4>1, <4>2, Zenon DEF h, v, more
      <4> QED
        BY <4>3 DEF h1, v1
    <3> QED
      BY <1>2, <3>3, <3>4 DEF Groups
  <2> QED
    BY <2>1, <1>2, <1>3, <1>4, <1>5 DEF IInv, CountsAgree
<1>8. Order'
  BY <1>2, <1>4, <1>5 DEF IInv, Order, Groups
<1>9. Listed'
  <2>1. ASSUME NEW g \in Groups, g = "hw" \/ g \notin late',
               NEW n \in 1 .. Len(ctl'[g])
        PROVE  ctl'[g][n] = NumidAt(g, n)
    <3>1. CASE g = group
      BY <1>2, <1>3, <1>4, <2>1, <3>1 DEF IInv, Listed
    <3>2. CASE g # group
      BY <1>2, <1>4, <2>1, <3>2 DEF IInv, Listed
    <3> QED
      BY <3>1, <3>2
  <2> QED
    BY <2>1 DEF Listed, NumidAt, FirstNumid
<1> QED
  BY <1>6, <1>7, <1>8, <1>9 DEF IInv

LEMMA NewControlsStep == IInv /\ mixer_add_new_ctls => IInv'
<1> SUFFICES ASSUME IInv, mixer_add_new_ctls PROVE IInv'
  OBVIOUS
<1>1. PICK h \in NewControls("hw"), v \in NewControls("plug") :
        LET added == [hw |-> h, plug |-> v]
        IN  /\ ctl' = [g \in Groups |-> ctl[g] \o added[g].ids]
            /\ total_count' = total_count + Counted(h) + Counted(v)
            /\ late' = late \cup {g \in Groups : added[g].ids # <<>>
                                              /\ ctl[g] # <<>>}
  BY DEF mixer_add_new_ctls
<1> DEFINE added == [hw |-> h, plug |-> v]
           all(g) == ctl[g] \o added[g].ids
<1>2. /\ pc = "ready" /\ UNCHANGED <<pc, group, grps, driver>>
      /\ Typed /\ CountsAgree /\ Order /\ Listed
  BY DEF mixer_add_new_ctls, IInv
<1>3. added["hw"] = h /\ added["plug"] = v
  OBVIOUS
<1>4. \A g \in Groups : added[g] \in NewControls(g)
  BY <1>3 DEF Groups
<1> HIDE DEF added
<1>5. ASSUME NEW g \in Groups
      PROVE  /\ added[g].ids \in Seq(Nat) /\ all(g) \in Seq(Nat)
             /\ Len(all(g)) = Len(ctl[g]) + Len(added[g].ids)
             /\ Len(all(g)) <= Len(driver[g])
             /\ g \notin grps => all(g) = <<>>
             /\ (\A n \in 1 .. Len(ctl[g]) : ctl[g][n] = NumidAt(g, n))
                  /\ (g = "hw" \/ ctl[g] = <<>> \/ added[g].ids = <<>>) =>
                  \A n \in 1 .. Len(all(g)) : all(g)[n] = NumidAt(g, n)
  <2>1. CASE g \in grps
    <3>1. added[g] \in add_controls(g)
      BY <1>4, <2>1 DEF NewControls
    <3> QED
      BY <1>2, <2>1, <3>1, Appended
  <2>2. CASE g \notin grps
    <3>1. added[g].ids = <<>> /\ ctl[g] = <<>> /\ Len(driver[g]) \in Nat
      BY <1>2, <1>4, <2>2 DEF NewControls, CountsAgree, Typed
    <3>2. all(g) = <<>> /\ Len(all(g)) = 0 /\ Len(ctl[g]) = 0
      BY <3>1
    <3> QED
      BY <3>1, <3>2
  <2> QED
    BY <2>1, <2>2
<1>6. \A g \in Groups : ctl'[g] = all(g)
  BY <1>1 DEF added
<1>7. Typed'
  BY <1>1, <1>2, <1>5 DEF Typed, added
<1>8. CountsAgree'
  <2>1. total_count' = total_count + Len(added["hw"].ids) + Len(added["plug"].ids)
    BY <1>1, <1>3 DEF Counted
  <2>2. Len(ctl["hw"]) \in Nat /\ Len(ctl["plug"]) \in Nat
        /\ Len(added["hw"].ids) \in Nat /\ Len(added["plug"].ids) \in Nat
    BY <1>2, <1>5, LenProperties DEF Typed, Groups
  <2>3. "hw" \in Groups /\ "plug" \in Groups
    BY DEF Groups
  <2> HIDE DEF all
  <2>4. total_count' = Len(all("hw")) + Len(all("plug"))
    <3>1. total_count = Len(ctl["hw"]) + Len(ctl["plug"])
      BY <1>2 DEF CountsAgree
    <3>2. /\ Len(all("hw")) = Len(ctl["hw"]) + Len(added["hw"].ids)
          /\ Len(all("plug")) = Len(ctl["plug"]) + Len(added["plug"].ids)
      BY <1>5, <2>3
    <3>3. total_count' = (Len(ctl["hw"]) + Len(added["hw"].ids))
                            + (Len(ctl["plug"]) + Len(added["plug"].ids))
      <4> DEFINE h0 == Len(ctl["hw"])
                 v0 == Len(ctl["plug"])
                 h1 == Len(added["hw"].ids)
                 v1 == Len(added["plug"].ids)
      <4>1. h0 \in Nat /\ v0 \in Nat /\ h1 \in Nat /\ v1 \in Nat
        BY <2>2
      <4> HIDE DEF h0, v0, h1, v1
      <4>2. h0 + v0 + h1 + v1 = (h0 + h1) + (v0 + v1)
        BY <4>1, SumPairs
      <4> QED
        BY <2>1, <3>1, <4>2, Zenon DEF h0, v0, h1, v1
    <3> QED
      BY <3>2, <3>3, Zenon
  <2> QED
    BY <1>2, <1>5, <1>6, <2>3, <2>4 DEF CountsAgree
<1>9. Order'
  BY <1>2 DEF Order
<1>10. Listed'
  <2>1. ASSUME NEW g \in Groups, g = "hw" \/ g \notin late'
        PROVE  \A n \in 1 .. Len(ctl'[g]) : ctl'[g][n] = NumidAt(g, n)
    <3>1. g = "hw" \/ g \notin late
      BY <1>1, <2>1
    <3>2. g = "hw" \/ ctl[g] = <<>> \/ added[g].ids = <<>>
      BY <1>1, <2>1 DEF added
    <3>3. \A n \in 1 .. Len(ctl[g]) : ctl[g][n] = NumidAt(g, n)
      BY <1>2, <3>1 DEF Listed
    <3> HIDE DEF all
    <3> QED
      BY <1>5, <1>6, <3>2, <3>3
  <2> QED
    BY <2>1 DEF Listed, NumidAt, FirstNumid
<1> QED
  BY <1>7, <1>8, <1>9, <1>10 DEF IInv

LEMMA AddControlStep ==
  ASSUME IInv, NEW g \in Groups, NEW kind \in Kinds, AddControl(g, kind)
  PROVE  IInv'
<1>1. /\ UNCHANGED <<pc, group, grps, ctl, total_count, late>>
      /\ driver' = [driver EXCEPT ![g] = Append(@, Elem(g, kind))]
  BY DEF AddControl, DriverAdds, mixer
<1>2. Typed /\ CountsAgree /\ Order /\ Listed
  BY DEF IInv
<1>3. Elem(g, kind) \in ElemType
  BY DEF ElemType
<1>4. \A h \in Groups : /\ driver[h] \in Seq(ElemType)
                        /\ Len(driver[h]) \in Nat /\ Len(ctl[h]) \in Nat
  BY <1>2 DEF Typed
<1>5. /\ Append(driver[g], Elem(g, kind)) \in Seq(ElemType)
      /\ Len(Append(driver[g], Elem(g, kind))) = Len(driver[g]) + 1
  BY <1>3, <1>4, AppendProperties
<1>6. Typed'
  BY <1>1, <1>2, <1>5 DEF Typed
<1>7. \A h \in Groups : Len(ctl[h]) <= Len(driver'[h])
  <2> SUFFICES ASSUME NEW h \in Groups PROVE Len(ctl[h]) <= Len(driver'[h])
    OBVIOUS
  <2>1. Len(ctl[h]) <= Len(driver[h])
    BY <1>2 DEF CountsAgree
  <2>2. CASE h = g
    BY <1>1, <1>2, <1>4, <1>5, <2>1, <2>2 DEF Typed
  <2>3. CASE h # g
    BY <1>1, <1>2, <2>1, <2>3 DEF Typed
  <2> QED
    BY <2>2, <2>3
<1>8. CountsAgree' /\ Order' /\ Listed'
  BY <1>1, <1>2, <1>7 DEF CountsAgree, Order, Listed, NumidAt, FirstNumid
<1> QED
  BY <1>6, <1>8 DEF IInv

LEMMA Stutter == IInv /\ UNCHANGED groupVars => IInv'
BY DEF IInv, Typed, CountsAgree, Order, Listed, NumidAt, FirstNumid, groupVars,
       mixer

LEMMA Inductive == IInv /\ [Next]_vars => IInv'
<1> SUFFICES ASSUME IInv, [Next]_vars PROVE IInv'
  OBVIOUS
<1>1. CASE HandleStep
  BY <1>1, QuietStep, OpenControlsStep
<1>2. CASE mixer_add_new_ctls
  BY <1>2, NewControlsStep
<1>3. CASE mixer_close
  <2>1. ~OpenControls
    BY <1>3 DEF mixer_close, OpenControls
  <2> QED
    BY <1>3, <2>1, QuietStep
<1>4. CASE \E g \in Groups, kind \in Kinds : AddControl(g, kind)
  BY <1>4, AddControlStep
<1>5. CASE \E client \in Clients :
             \/ mixer_ctl_set_value(client) \/ mixer_ctl_set_percent(client)
             \/ SetValueWrite(client)
             \/ mixer_ctl_set_array(client)
             \/ mixer_ctl_set_enum_by_string(client)
  <2>1. UNCHANGED groupVars
    BY <1>5 DEF mixer_ctl_set_value, mixer_ctl_set_percent, SetValueRead,
                SetValueWrite, mixer_ctl_set_array,
                mixer_ctl_set_enum_by_string
  <2> QED
    BY <2>1, Stutter
<1>6. CASE UNCHANGED vars
  BY <1>6, Stutter DEF vars
<1>7. CASE \E client \in Clients : PercentTraps(client)
  <2>1. /\ pc' = "undefined"
        /\ UNCHANGED <<ctl, driver, late, total_count>> /\ UNCHANGED <<group, grps>>
    BY <1>7 DEF PercentTraps, mixer
  <2>2. Quiet
    BY <2>1 DEF Quiet, IInv, Typed
  <2> QED
    BY <2>2, QuietHolds
<1> QED
  BY <1>1, <1>2, <1>3, <1>4, <1>5, <1>6, <1>7 DEF Next

(* The counters of the handle and of its groups agree in every reachable   *)
(* state, and every list of controls begins at its backend's first.        *)
THEOREM InvariantHolds == Spec => []IInv
<1>1. Init => IInv
  BY GroupsInitHolds DEF Init
<1> QED
  BY <1>1, Inductive, PTL DEF Spec

------------------------------------------------------------------------------
(* What follows from it                                                    *)

(* The ids below mixer_get_num_ctls are the controls of both groups, each  *)
(* once.                                                                   *)
LEMMA InvImpliesIdsDense == IInv => IdsDense
<1> SUFFICES ASSUME IInv PROVE IdsDense
  OBVIOUS
<1> DEFINE h == Len(ctl["hw"])
           v == Len(ctl["plug"])
<1>1. h \in Nat /\ v \in Nat /\ total_count = h + v
  BY DEF IInv, Typed, CountsAgree, Groups
<1>2. mixer_grp_get_count("hw") = h /\ mixer_grp_get_count("plug") = v
  BY DEF IInv, CountsAgree, mixer_grp_get_count, Groups
<1>3. UNION {{<<g, n>> : n \in DOMAIN ctl[g]} : g \in grps}
        = {<<"hw", n>> : n \in 1 .. h} \cup {<<"plug", n>> : n \in 1 .. v}
  <2>1. \A g \in Groups : DOMAIN ctl[g] = 1 .. Len(ctl[g])
    BY DEF IInv, Typed
  <2>2. \A g \in Groups \ grps : DOMAIN ctl[g] = {}
    BY DEF IInv, CountsAgree
  <2>3. grps \subseteq Groups
    BY DEF IInv, Typed
  <2>4. \A c : c \in UNION {{<<g, n>> : n \in DOMAIN ctl[g]} : g \in grps}
               <=> \E g \in Groups : \E n \in DOMAIN ctl[g] : c = <<g, n>>
    BY <2>2, <2>3
  <2> QED
    BY <2>1, <2>4 DEF Groups
<1> HIDE DEF h, v
<1>4. Ids = 0 .. h + v - 1
  BY <1>1 DEF Ids
<1>5. \A id \in Ids :
        mixer_get_ctl(id) = IF id < h THEN <<"hw", id + 1>>
                                      ELSE <<"plug", id - h + 1>>
  BY <1>1, <1>2, <1>4 DEF mixer_get_ctl, Place
<1>6. \A i, j \in Ids : mixer_get_ctl(i) = mixer_get_ctl(j) => i = j
  BY <1>1, <1>4, <1>5
<1>7. mixer_get_ctl(total_count) = NULL
  BY <1>1 DEF mixer_get_ctl
<1>8. {mixer_get_ctl(id) : id \in Ids}
        = {<<"hw", n>> : n \in 1 .. h} \cup {<<"plug", n>> : n \in 1 .. v}
  <2>1. ASSUME NEW id \in Ids
        PROVE  mixer_get_ctl(id) \in {<<"hw", n>> : n \in 1 .. h}
                                       \cup {<<"plug", n>> : n \in 1 .. v}
    <3>1. CASE id < h
      BY <1>1, <1>4, <1>5, <2>1, <3>1
    <3>2. CASE ~(id < h)
      <4>1. id - h + 1 \in 1 .. v
        BY <1>1, <1>4, <2>1, <3>2
      <4> QED
        BY <1>5, <2>1, <3>2, <4>1
    <3> QED
      BY <3>1, <3>2
  <2>2. ASSUME NEW n \in 1 .. h
        PROVE  \E id \in Ids : mixer_get_ctl(id) = <<"hw", n>>
    <3>1. n - 1 \in Ids /\ n - 1 < h /\ (n - 1) + 1 = n
      BY <1>1, <1>4, <2>2
    <3> QED
      BY <1>5, <3>1
  <2>3. ASSUME NEW n \in 1 .. v
        PROVE  \E id \in Ids : mixer_get_ctl(id) = <<"plug", n>>
    <3>1. h + n - 1 \in Ids /\ ~(h + n - 1 < h) /\ (h + n - 1) - h + 1 = n
      BY <1>1, <1>4, <2>3
    <3> QED
      BY <1>5, <3>1
  <2> QED
    BY <2>1, <2>2, <2>3
<1> QED
  BY <1>3, <1>6, <1>7, <1>8 DEF IdsDense

(* Every id leads to a control and every control has one id, whichever     *)
(* openings and additions failed half way.                                 *)
THEOREM IdsDenseCorrect == Spec => []IdsDense
BY InvariantHolds, InvImpliesIdsDense, PTL

(* The controls of a group are the backend's first ones, in their order.   *)
THEOREM ControlsListedCorrect == Spec => []ControlsListed
<1>1. IInv => ControlsListed
  <2> SUFFICES ASSUME IInv, NEW g \in grps, g = "hw" \/ g \notin late,
                      NEW n \in DOMAIN ctl[g]
               PROVE  Addressed(g, ctl[g][n]) = n
    BY DEF ControlsListed
  <2>1. g \in Groups /\ n \in 1 .. Len(ctl[g]) /\ n \in Int
    BY DEF IInv, Typed
  <2>2. ctl[g][n] = NumidAt(g, n)
    BY <2>1 DEF IInv, Listed
  <2> QED
    BY <2>1, <2>2 DEF Addressed, NumidAt, FirstNumid
<1> QED
  BY <1>1, InvariantHolds, PTL
------------------------------------------------------------------------------
(* What the handle holds                                                   *)

Opening == {"grp_open", "card_info", "add", "err_card_info", "open_end"}
Live == grps \ lost
Whole(g) == Backend[g] \cup Res(g, {"grp", "ctl"})

WholeHeld ==
  \A g \in Live : /\ Backend[g] \subseteq held
                  /\ ctl[g] # <<>> => <<g, "ctl">> \in held
NothingElse ==
  held \subseteq Handle \cup (UNION {Whole(g) : g \in Live}) \cup Leaks

(* From mixer_open to mixer_close each group that did not fail is held     *)
(* whole, and what is held besides belongs to the failures that leak.      *)
Holds ==
  /\ lost \cap Groups \subseteq grps /\ "plug_close" \notin lost
  /\ Handle \subseteq held
  /\ \A g \in Groups : <<g, "grp">> \in held <=> g \in Live
  /\ WholeHeld /\ NothingElse

HeldInv ==
  /\ lost \subseteq DOMAIN LeakOf
  /\ pc = "none" => held = {} /\ grps = {} /\ lost = {}
  /\ pc = "null" => held \subseteq Leaks
  /\ pc \in Opening \cup {"ready", "fail"} => Holds
  /\ pc \in {"none"} \cup Opening /\ group = "hw" => "plug" \notin grps
  /\ pc = "grp_open" => group \notin grps
  /\ pc \in {"card_info", "add", "err_card_info"} => group \in Live
  /\ pc \in {"none", "null", "undefined", "ready", "fail"} \cup Opening

LEMMA Resources ==
  /\ DOMAIN LeakOf = {"hw_data", "hw", "plug", "plug_close"}
  /\ LeakOf["hw_data"] = {<<"hw", "fd">>}
  /\ LeakOf["hw"] = {<<"hw", "ctl">>}
  /\ LeakOf["plug"] = {<<"plug", "ctl">>, <<"plug", "node">>, <<"plug", "eventfd">>}
  /\ LeakOf["plug_close"] = {<<"plug", "node">>, <<"plug", "eventfd">>}
  /\ Handle = {<<"mixer", "handle">>}
  /\ Whole("hw") = {<<"hw", "data">>, <<"hw", "fd">>, <<"hw", "grp">>, <<"hw", "ctl">>}
  /\ Whole("plug") = {<<"plug", "data">>, <<"plug", "node">>, <<"plug", "dl">>,
                      <<"plug", "plugin">>, <<"plug", "eventfd">>,
                      <<"plug", "grp">>, <<"plug", "ctl">>}
  /\ Closed("hw") = {<<"hw", "data">>, <<"hw", "fd">>}
  /\ Closed("plug") = {<<"plug", "data">>, <<"plug", "dl">>, <<"plug", "plugin">>}
  /\ Backend["hw"] = {<<"hw", "data">>, <<"hw", "fd">>}
  /\ Backend["plug"] = {<<"plug", "data">>, <<"plug", "node">>, <<"plug", "dl">>,
                        <<"plug", "plugin">>, <<"plug", "eventfd">>}
<1> USE DEF Res
<1>1. /\ Backend["hw"] = {<<"hw", "data">>, <<"hw", "fd">>}
      /\ Backend["plug"] = {<<"plug", "data">>, <<"plug", "node">>, <<"plug", "dl">>,
                            <<"plug", "plugin">>, <<"plug", "eventfd">>}
  BY DEF Backend
<1>2. /\ LeakOf["hw_data"] = {<<"hw", "fd">>}
      /\ LeakOf["hw"] = {<<"hw", "ctl">>}
      /\ LeakOf["plug"] = {<<"plug", "ctl">>, <<"plug", "node">>, <<"plug", "eventfd">>}
      /\ LeakOf["plug_close"] = {<<"plug", "node">>, <<"plug", "eventfd">>}
  BY DEF LeakOf
<1>3. DOMAIN LeakOf = {"hw_data", "hw", "plug", "plug_close"}
  BY DEF LeakOf
<1>4. /\ Whole("hw") = {<<"hw", "data">>, <<"hw", "fd">>, <<"hw", "grp">>, <<"hw", "ctl">>}
      /\ Closed("hw") = {<<"hw", "data">>, <<"hw", "fd">>}
  BY <1>1 DEF Whole, Closed
<1>5. /\ Whole("plug") = {<<"plug", "data">>, <<"plug", "node">>, <<"plug", "dl">>,
                          <<"plug", "plugin">>, <<"plug", "eventfd">>,
                          <<"plug", "grp">>, <<"plug", "ctl">>}
      /\ Closed("plug") = {<<"plug", "data">>, <<"plug", "dl">>, <<"plug", "plugin">>}
  BY <1>1 DEF Whole, Closed
<1> QED
  BY <1>1, <1>2, <1>3, <1>4, <1>5 DEF Handle

LEMMA LeaksGrow ==
  ASSUME NEW f \in DOMAIN LeakOf, lost' = lost \cup {f}
  PROVE  Leaks' = Leaks \cup LeakOf[f]
<1>1. Leaks' = UNION {LeakOf[x] : x \in lost'}
  BY DEF Leaks, LeakOf
<1> QED
  BY <1>1 DEF Leaks

(* Holds as it reads after a step, its constants as they are.              *)
LEMMA HoldsAfter ==
  ASSUME lost' \cap Groups \subseteq grps', "plug_close" \notin lost',
         Handle \subseteq held',
         \A g \in Groups : <<g, "grp">> \in held' <=> g \in Live',
         \A g \in Live' : /\ Backend[g] \subseteq held'
                          /\ ctl'[g] # <<>> => <<g, "ctl">> \in held',
         held' \subseteq Handle \cup (UNION {Whole(g) : g \in Live'}) \cup Leaks'
  PROVE  Holds'
<1>1. UNION {Whole(g) : g \in Live'} = UNION {Whole(g)' : g \in Live'}
  BY DEF Whole, Backend, Res
<1>2. Handle' = Handle /\ Backend' = Backend /\ Groups' = Groups
  BY DEF Handle, Backend, Groups, Res
<1> QED
  BY <1>1, <1>2 DEF Holds, WholeHeld, NothingElse

LEMMA HoldsFrame == Holds /\ UNCHANGED <<held, lost, grps, ctl>> => Holds'
BY DEF Holds, WholeHeld, NothingElse, Live, Leaks, LeakOf, Backend, Whole, Handle, Res

(* mixer_grp_open and the calls that change nothing that is held.          *)
LEMMA GrpOpenHeld == IInv /\ HeldInv /\ mixer_grp_open => HeldInv'
<1> SUFFICES ASSUME IInv, HeldInv, mixer_grp_open PROVE HeldInv'
  OBVIOUS
<1>1. /\ pc = "grp_open" /\ Holds /\ group \in Groups /\ group \notin grps
      /\ group = "hw" => "plug" \notin grps
      /\ lost \subseteq DOMAIN LeakOf /\ ctl[group] = <<>>
      /\ grps \subseteq Groups /\ UNCHANGED ctl
  BY DEF HeldInv, mixer_grp_open, IInv, Typed, Order, Opening
<1>2. CASE GroupDone /\ UNCHANGED <<grps, held, lost>>
  <2>1. Holds'
    BY <1>1, <1>2, HoldsFrame
  <2>2. pc' \in {"grp_open", "open_end"} /\ group' = "plug" /\ (pc' = "grp_open" => group = "hw")
    BY <1>2 DEF GroupDone
  <2> QED
    BY <1>1, <1>2, <2>1, <2>2 DEF HeldInv, Opening, LeakOf
<1>3. CASE /\ GroupDone /\ group = "hw" /\ UNCHANGED grps
           /\ held' = held \cup {<<"hw", "fd">>}
           /\ lost' = lost \cup {"hw_data"}
  <2>1. pc' = "grp_open" /\ group' = "plug"
    BY <1>3 DEF GroupDone
  <2>2. Live' = Live /\ lost' \cap Groups = lost \cap Groups
    BY <1>1, <1>3 DEF Live, Groups
  <2>3. Leaks' = Leaks \cup {<<"hw", "fd">>}
    BY <1>3, Resources, LeaksGrow
  <2>4. Holds'
    <3>1. "plug_close" \notin lost'
      BY <1>1, <1>3 DEF Holds
    <3>2. \A g \in Groups : <<g, "grp">> \in held' <=> g \in Live'
      BY <1>1, <1>3, <2>2 DEF Holds
    <3>3. \A g \in Live' : /\ Backend[g] \subseteq held'
                           /\ ctl'[g] # <<>> => <<g, "ctl">> \in held'
      <4>1. WholeHeld
        BY <1>1 DEF Holds
      <4> QED
        BY <1>1, <1>3, <2>2, <4>1 DEF WholeHeld
    <3>4. held' \subseteq Handle \cup (UNION {Whole(g) : g \in Live'}) \cup Leaks'
      <4>1. NothingElse
        BY <1>1 DEF Holds
      <4> QED
        BY <1>3, <2>2, <2>3, <4>1 DEF NothingElse
    <3> QED
      BY <1>1, <1>3, <2>2, <3>1, <3>2, <3>3, <3>4, HoldsAfter DEF Holds
  <2> QED
    BY <1>1, <1>3, <2>1, <2>4, Resources DEF HeldInv, Opening, LeakOf
<1>4. CASE /\ pc' = "card_info"
           /\ held' = held \cup Backend[group] \cup {<<group, "grp">>}
           /\ grps' = grps \cup {group}
           /\ UNCHANGED <<group, lost>>
  <2>1. group \notin lost
    BY <1>1 DEF Holds
  <2>2. Live' = Live \cup {group}
    BY <1>4, <2>1 DEF Live
  <2>3. Leaks' = Leaks
    BY <1>4 DEF Leaks, LeakOf
  <2>4. Holds'
    <3>1. \A r : r \in Whole(group) <=>
                  r \in Backend[group] \/ r \in {<<group, "grp">>, <<group, "ctl">>}
      BY DEF Whole, Res
    <3>2. \A g \in Groups : <<g, "grp">> \notin Backend[group]
      BY <1>1, Resources DEF Groups
    <3>3. \A g \in Groups : <<g, "grp">> \in held' <=> g \in Live'
      BY <1>1, <1>4, <2>2, <3>2 DEF Holds
    <3>4. \A g \in Live' : /\ Backend[g] \subseteq held'
                           /\ ctl'[g] # <<>> => <<g, "ctl">> \in held'
      <4>1. WholeHeld
        BY <1>1 DEF Holds
      <4> QED
        BY <1>1, <1>4, <2>2, <4>1 DEF WholeHeld
    <3>5. held' \subseteq Handle \cup (UNION {Whole(g) : g \in Live'}) \cup Leaks'
      <4>1. Whole(group) \subseteq UNION {Whole(g) : g \in Live'}
        BY <2>2
      <4>2. UNION {Whole(g) : g \in Live} \subseteq UNION {Whole(g) : g \in Live'}
        BY <2>2
      <4>3. held \subseteq Handle \cup (UNION {Whole(g) : g \in Live}) \cup Leaks
        BY <1>1 DEF Holds, NothingElse
      <4>4. Backend[group] \cup {<<group, "grp">>} \subseteq Whole(group)
        BY <3>1
      <4> QED
        BY <1>4, <2>3, <4>1, <4>2, <4>3, <4>4
    <3>6. /\ lost' \cap Groups \subseteq grps' /\ "plug_close" \notin lost'
          /\ Handle \subseteq held'
      BY <1>1, <1>4 DEF Holds
    <3> QED
      BY <3>3, <3>4, <3>5, <3>6, HoldsAfter
  <2> QED
    BY <1>1, <1>4, <2>2, <2>4 DEF HeldInv, Opening, LeakOf
<1> QED
  BY <1>2, <1>3, <1>4 DEF mixer_grp_open


LEMMA OpenHeld == HeldInv /\ mixer_open => HeldInv'
<1> SUFFICES ASSUME HeldInv, mixer_open PROVE HeldInv'
  OBVIOUS
<1>1. /\ held = {} /\ grps = {} /\ lost = {} /\ (group = "hw" => "plug" \notin grps)
      /\ UNCHANGED <<group, grps, lost>>
  BY DEF HeldInv, mixer_open, mixer
<1>2. CASE pc' = "null" /\ UNCHANGED held
  BY <1>1, <1>2 DEF HeldInv, Opening, LeakOf
<1>3. CASE pc' = "grp_open" /\ held' = held \cup Handle
  <2>1. Live' = {} /\ lost' = {} /\ held' = Handle
    BY <1>1, <1>3 DEF Live
  <2>2. \A g \in Groups : <<g, "grp">> \notin Handle
    BY DEF Groups, Handle
  <2>3. Holds'
    BY <2>1, <2>2, HoldsAfter
  <2> QED
    BY <1>1, <1>3, <2>3 DEF HeldInv, Opening, LeakOf
<1> QED
  BY <1>2, <1>3 DEF mixer_open

(* The calls that acquire and release nothing.                             *)
LEMMA IdleHeld ==
  ASSUME HeldInv,
         \/ SampleOpenFails \/ CardInfo \/ OpenEnd \/ UseDangling
         \/ UNCHANGED <<group, grps, ctl, held, lost>>
            /\ pc' \in {pc, "undefined"}
  PROVE  HeldInv'
<1>1. UNCHANGED <<group, grps, ctl, held, lost>>
  BY DEF SampleOpenFails, CardInfo, OpenEnd, UseDangling, mixer
<1>2. Holds => Holds'
  BY <1>1, HoldsFrame
<1>3. Live' = Live /\ Leaks' = Leaks
  BY <1>1 DEF Live, Leaks, LeakOf
<1>4. lost' \subseteq DOMAIN LeakOf'
  BY <1>1 DEF HeldInv, LeakOf
<1> USE DEF HeldInv, Opening
<1>5. CASE SampleOpenFails
  BY <1>1, <1>4, <1>5 DEF SampleOpenFails
<1>6. CASE CardInfo
  BY <1>1, <1>2, <1>3, <1>4, <1>6 DEF CardInfo
<1>7. CASE OpenEnd
  BY <1>1, <1>2, <1>4, <1>7 DEF OpenEnd
<1>8. CASE UseDangling
  BY <1>1, <1>4, <1>8 DEF UseDangling
<1>9. CASE UNCHANGED pc
  BY <1>1, <1>2, <1>3, <1>4, <1>9
<1>10. CASE pc' = "undefined"
  BY <1>1, <1>4, <1>10
<1> QED
  BY <1>5, <1>6, <1>7, <1>8, <1>9, <1>10

(* The array of a group that got controls is held.                         *)
LEMMA AddedArray ==
  ASSUME Typed, CountsAgree, NEW g \in Groups, NEW added \in add_controls(g)
  PROVE  /\ added.array \subseteq {<<g, "ctl">>}
         /\ added.ids # <<>> => <<g, "ctl">> \in added.array
<1> DEFINE space == Len(driver[g]) - Len(ctl[g])
           new == ElemList(g, Len(ctl[g]), space)
<1>1. CASE added = [ids |-> <<>>, ret |-> -1, array |-> {}]
  BY <1>1
<1>2. CASE \E n \in Supported(g, new) :
             added = [ids |-> SubSeq(new, 1, n),
                      ret |-> IF n = Len(new) THEN 0 ELSE -1,
                      array |-> IF new = <<>> THEN {} ELSE Res(g, {"ctl"})]
  <2> HIDE DEF new
  <2>1. PICK n \in 0 .. Len(new) :
          /\ added.ids = SubSeq(new, 1, n)
          /\ added.array = IF new = <<>> THEN {} ELSE Res(g, {"ctl"})
    BY <1>2 DEF Supported
  <2>2. new = <<>> => added.ids = <<>>
    BY <2>1
  <2> QED
    BY <2>1, <2>2 DEF Res
<1> QED
  BY <1>1, <1>2 DEF add_controls

(* Groups that get controls.                                               *)
LEMMA GrowHeld ==
  ASSUME Holds, UNCHANGED <<grps, lost>>, NEW arrays,
         held' = held \cup arrays,
         arrays \subseteq {<<g, "ctl">> : g \in Live},
         \A g \in Live : ctl'[g] # ctl[g] => <<g, "ctl">> \in arrays
  PROVE  Holds'
<1>1. Live' = Live /\ Leaks' = Leaks
  BY DEF Live, Leaks, LeakOf
<1>4. \A g \in Groups : <<g, "grp">> \in held' <=> g \in Live'
  BY <1>1 DEF Holds
<1>5. \A g \in Live' : /\ Backend[g] \subseteq held'
                       /\ ctl'[g] # <<>> => <<g, "ctl">> \in held'
  BY <1>1 DEF Holds, WholeHeld
<1>6. held' \subseteq Handle \cup (UNION {Whole(g) : g \in Live'}) \cup Leaks'
  <2>1. \A g \in Live : <<g, "ctl">> \in Whole(g)
    BY DEF Whole, Res
  <2>2. arrays \subseteq UNION {Whole(g) : g \in Live}
    BY <2>1
  <2>3. NothingElse
    BY DEF Holds
  <2> QED
    BY <1>1, <2>2, <2>3 DEF NothingElse
<1>7. lost' \cap Groups \subseteq grps' /\ "plug_close" \notin lost' /\ Handle \subseteq held'
  BY DEF Holds
<1> QED
  BY <1>4, <1>5, <1>6, <1>7, HoldsAfter

LEMMA OpenControlsHeld == IInv /\ HeldInv /\ OpenControls => HeldInv'
<1> SUFFICES ASSUME IInv, HeldInv, OpenControls PROVE HeldInv'
  OBVIOUS
<1>1. PICK added \in add_controls(group) :
        /\ ctl' = [ctl EXCEPT ![group] = @ \o added.ids]
        /\ held' = held \cup added.array
        /\ IF added.ret = 0 THEN GroupDone
                            ELSE pc' = "err_card_info" /\ UNCHANGED group
  BY DEF OpenControls
<1>2. /\ pc = "add" /\ group \in Groups /\ group \in Live /\ Holds
      /\ (group = "hw" => "plug" \notin grps) /\ grps \subseteq Groups
      /\ lost \subseteq DOMAIN LeakOf /\ UNCHANGED <<grps, lost>>
      /\ Typed /\ CountsAgree
  BY DEF OpenControls, HeldInv, IInv, Typed, Opening
<1>3. added.array \subseteq {<<group, "ctl">>}
      /\ (added.ids # <<>> => <<group, "ctl">> \in added.array)
  BY <1>2, AddedArray
<1>4. \A g \in Live : ctl'[g] # ctl[g] => <<g, "ctl">> \in added.array
  <2> SUFFICES ASSUME NEW g \in Live, ctl'[g] # ctl[g]
               PROVE  <<g, "ctl">> \in added.array
    OBVIOUS
  <2>1. g \in Groups /\ ctl \in [Groups -> Seq(Nat)]
    BY <1>2 DEF Live, Typed
  <2>2. g = group /\ added.ids # <<>>
    BY <1>1, <1>2, <2>1
  <2> QED
    BY <1>3, <2>2
<1>5. Holds'
  BY <1>1, <1>2, <1>3, <1>4, GrowHeld
<1>6. Live' = Live
  BY <1>2 DEF Live
<1>7. \/ pc' = "err_card_info" /\ UNCHANGED group
      \/ pc' \in {"grp_open", "open_end"} /\ group' = "plug" /\ (pc' = "grp_open" => group = "hw")
  BY <1>1, <1>2 DEF GroupDone
<1> QED
  BY <1>2, <1>5, <1>6, <1>7 DEF HeldInv, Opening, LeakOf

LEMMA NewControlsHeld == IInv /\ HeldInv /\ mixer_add_new_ctls => HeldInv'
<1> SUFFICES ASSUME IInv, HeldInv, mixer_add_new_ctls PROVE HeldInv'
  OBVIOUS
<1>1. PICK h \in NewControls("hw"), v \in NewControls("plug") :
        LET added == [hw |-> h, plug |-> v]
        IN  /\ ctl' = [g \in Groups |-> ctl[g] \o added[g].ids]
            /\ held' = held \cup h.array \cup v.array
  BY DEF mixer_add_new_ctls
<1> DEFINE added == [hw |-> h, plug |-> v]
           arrays == h.array \cup v.array
<1>2. /\ pc = "ready" /\ Dangling = {} /\ Holds /\ grps \subseteq Groups
      /\ lost \subseteq DOMAIN LeakOf /\ UNCHANGED <<pc, group, grps, lost>>
      /\ Typed /\ CountsAgree
  BY DEF mixer_add_new_ctls, HeldInv, IInv, Typed
<1>3. Live = grps
  BY <1>2 DEF Dangling, Holds, Live
<1>4. \A g \in Groups : added[g] \in NewControls(g)
  BY DEF Groups
<1>5. \A g \in Groups : /\ added[g].array \subseteq {<<g, "ctl">>}
                        /\ added[g].ids # <<>> => <<g, "ctl">> \in added[g].array
                        /\ g \notin Live => added[g].array = {}
  <2> SUFFICES ASSUME NEW g \in Groups
               PROVE  /\ added[g].array \subseteq {<<g, "ctl">>}
                      /\ added[g].ids # <<>> => <<g, "ctl">> \in added[g].array
                      /\ g \notin Live => added[g].array = {}
    OBVIOUS
  <2> HIDE DEF added
  <2>1. CASE g \in grps
    <3>1. added[g] \in add_controls(g)
      BY <1>4, <2>1 DEF NewControls
    <3> QED
      BY <1>2, <1>3, <2>1, <3>1, AddedArray
  <2>2. CASE g \notin grps
    BY <1>4, <2>2 DEF NewControls
  <2> QED
    BY <2>1, <2>2
<1>6. arrays = added["hw"].array \cup added["plug"].array
  OBVIOUS
<1>7. \A g \in Groups : ctl'[g] = ctl[g] \o added[g].ids
  BY <1>1
<1>8. held' = held \cup arrays
  BY <1>1
<1> HIDE DEF added, arrays
<1>9. arrays \subseteq {<<g, "ctl">> : g \in Live}
  BY <1>5, <1>6 DEF Groups
<1>10. \A g \in Live : ctl'[g] # ctl[g] => <<g, "ctl">> \in arrays
  <2> SUFFICES ASSUME NEW g \in Live, ctl'[g] # ctl[g] PROVE <<g, "ctl">> \in arrays
    OBVIOUS
  <2>1. g \in Groups /\ ctl[g] \in Seq(Nat)
    BY <1>2, <1>3 DEF Typed
  <2>2. added[g].ids # <<>>
    <3>1. ctl[g] \o <<>> = ctl[g]
      BY <2>1
    <3> QED
      BY <1>7, <2>1, <3>1
  <2> QED
    BY <1>5, <1>6, <2>1, <2>2 DEF Groups
<1>11. Holds'
  BY <1>2, <1>8, <1>9, <1>10, GrowHeld
<1> QED
  BY <1>2, <1>11 DEF HeldInv, Opening, LeakOf

(* What is left of a group whose backend was closed leaks.                 *)
LEMMA ClosedLeaks ==
  /\ \A r \in Whole("hw") : r \notin Closed("hw") /\ r # <<"hw", "grp">> =>
       r \in LeakOf["hw"]
  /\ \A r \in Whole("plug") : r \notin Closed("plug") /\ r # <<"plug", "grp">> =>
       r \in LeakOf["plug"]
  /\ \A r \in Whole("plug") :
       r \notin Closed("plug") /\ r \notin {<<"plug", "grp">>, <<"plug", "ctl">>} =>
       r \in LeakOf["plug_close"]
  /\ \A r \in Whole("hw") :
       r \in Closed("hw") \/ r \in {<<"hw", "grp">>, <<"hw", "ctl">>}
BY Resources, Zenon

(* Groups share no resource.                                               *)
LEMMA Apart ==
  ASSUME NEW g \in Groups, NEW h \in Groups, g # h
  PROVE  /\ Closed(g) \cap Whole(h) = {} /\ Closed(g) \cap Handle = {}
         /\ <<g, "grp">> \notin Whole(h) /\ <<g, "grp">> \notin Handle
         /\ <<h, "grp">> \notin Closed(g) /\ <<g, "grp">> \notin Closed(g)
         /\ Backend[g] \subseteq Whole(g) /\ <<g, "ctl">> \in Whole(g)
         /\ <<h, "grp">> # <<g, "grp">>
<1>1. \A x \in Groups : Backend[x] \subseteq Whole(x) /\ <<x, "ctl">> \in Whole(x)
  BY DEF Whole, Res
<1>2. CASE g = "hw" /\ h = "plug"
  BY <1>1, <1>2, Resources
<1>3. CASE g = "plug" /\ h = "hw"
  BY <1>1, <1>3, Resources
<1> QED
  BY <1>2, <1>3 DEF Groups

LEMMA ErrCardInfoHeld == IInv /\ HeldInv /\ ErrCardInfo => HeldInv'
<1> SUFFICES ASSUME IInv, HeldInv, ErrCardInfo PROVE HeldInv'
  OBVIOUS
<1>1. /\ pc = "err_card_info" /\ group \in Groups /\ group \in Live /\ Holds
      /\ (group = "hw" => "plug" \notin grps) /\ grps \subseteq Groups
      /\ lost \subseteq DOMAIN LeakOf /\ UNCHANGED <<grps, ctl>>
      /\ held' = held \ (Closed(group) \cup {<<group, "grp">>})
      /\ lost' = lost \cup {group} /\ GroupDone
  BY DEF ErrCardInfo, HeldInv, IInv, Typed, Opening, mixer
<1>2. Live' = Live \ {group} /\ Live \subseteq Groups
  BY <1>1 DEF Live
<1>3. group \in DOMAIN LeakOf
  BY <1>1, Resources DEF Groups
<1>4. Leaks' = Leaks \cup LeakOf[group]
  BY <1>1, <1>3, LeaksGrow
<1>5. /\ pc' \in {"grp_open", "open_end"} /\ group' = "plug"
      /\ (pc' = "grp_open" => group = "hw")
  BY <1>1 DEF GroupDone
<1>6. PICK other \in Groups : other # group /\ Groups = {group, other}
  BY <1>1 DEF Groups
<1>7. /\ Closed(group) \cap Whole(other) = {} /\ Closed(group) \cap Handle = {}
      /\ <<group, "grp">> \notin Whole(other) /\ <<group, "grp">> \notin Handle
      /\ <<other, "grp">> \notin Closed(group)
      /\ Backend[other] \subseteq Whole(other) /\ <<other, "ctl">> \in Whole(other)
      /\ <<other, "grp">> # <<group, "grp">>
  BY <1>1, <1>6, Apart
<1>8. Live' \subseteq {other}
  BY <1>2, <1>6
<1>9. Handle \subseteq held'
  BY <1>1, <1>7 DEF Holds
<1>10. \A g \in Groups : <<g, "grp">> \in held' <=> g \in Live'
  <2>1. <<group, "grp">> \notin held' /\ group \notin Live'
    BY <1>1, <1>2
  <2>2. <<other, "grp">> \in held' <=> other \in Live'
    BY <1>1, <1>2, <1>6, <1>7 DEF Holds
  <2> QED
    BY <1>6, <2>1, <2>2
<1>11. \A g \in Live' : /\ Backend[g] \subseteq held'
                        /\ ctl'[g] # <<>> => <<g, "ctl">> \in held'
  <2> SUFFICES ASSUME other \in Live
               PROVE  /\ Backend[other] \subseteq held'
                      /\ ctl'[other] # <<>> => <<other, "ctl">> \in held'
    BY <1>2, <1>8
  <2>1. Backend[other] \subseteq held /\ (ctl[other] # <<>> => <<other, "ctl">> \in held)
    BY <1>1 DEF Holds, WholeHeld
  <2> QED
    BY <1>1, <1>7, <2>1
<1>12. held' \subseteq Handle \cup (UNION {Whole(g) : g \in Live'}) \cup Leaks'
  <2> SUFFICES ASSUME NEW r \in held', r \notin Handle, r \notin Leaks
               PROVE  r \in (UNION {Whole(g) : g \in Live'}) \cup LeakOf[group]
    BY <1>4
  <2>1. PICK g \in Live : r \in Whole(g)
    BY <1>1 DEF Holds, NothingElse
  <2>2. CASE g # group
    BY <1>2, <2>1, <2>2
  <2>3. CASE g = group
    BY <1>1, <2>1, <2>3, ClosedLeaks DEF Groups
  <2> QED
    BY <2>2, <2>3
<1>13. Holds'
  <2>1. lost' \cap Groups \subseteq grps' /\ "plug_close" \notin lost'
    BY <1>1 DEF Holds, Groups, Live
  <2> QED
    BY <1>9, <1>10, <1>11, <1>12, <2>1, HoldsAfter
<1> QED
  BY <1>1, <1>3, <1>5, <1>13 DEF HeldInv, Opening, LeakOf

LEMMA CloseHeld == IInv /\ HeldInv /\ mixer_close => HeldInv'
<1> SUFFICES ASSUME IInv, HeldInv, mixer_close PROVE HeldInv'
  OBVIOUS
<1>1. /\ pc \in {"ready", "fail"} /\ Dangling = {} /\ Holds /\ grps \subseteq Groups
      /\ lost \subseteq DOMAIN LeakOf /\ pc' = "null"
      /\ held' = held \ (Handle \cup UNION {Closed(g) \cup Res(g, {"grp", "ctl"}) :
                                            g \in grps})
      /\ lost' = lost \cup (IF "plug" \in grps THEN {"plug_close"} ELSE {})
  BY DEF mixer_close, HeldInv, IInv, Typed
<1>2. lost' \subseteq DOMAIN LeakOf /\ lost \subseteq lost'
  BY <1>1, Resources
<1>3. Leaks' = UNION {LeakOf[f] : f \in lost'}
  BY DEF Leaks, LeakOf
<1>4. held' \subseteq Leaks'
  <2> SUFFICES ASSUME NEW r \in held', r \notin Leaks PROVE r \in Leaks'
    BY <1>2, <1>3 DEF Leaks
  <2>1. r \in held /\ r \notin Handle
        /\ \A g \in grps : r \notin Closed(g) \cup Res(g, {"grp", "ctl"})
    BY <1>1
  <2>2. PICK g \in Live : r \in Whole(g)
    BY <1>1, <2>1 DEF Holds, NothingElse
  <2>3. g \in grps /\ g \in Groups
    BY <1>1, <2>2 DEF Live
  <2>4. r \notin Closed(g) /\ r # <<g, "grp">> /\ r # <<g, "ctl">>
    BY <2>1, <2>3 DEF Res
  <2>5. g = "plug" /\ r \in LeakOf["plug_close"]
    BY <2>2, <2>3, <2>4, ClosedLeaks DEF Groups
  <2>6. "plug_close" \in lost'
    BY <1>1, <2>3, <2>5
  <2> QED
    BY <1>3, <2>5, <2>6
<1> QED
  BY <1>1, <1>2, <1>4 DEF HeldInv, Opening, LeakOf

LEMMA HeldInductive == IInv /\ HeldInv /\ [Next]_vars => HeldInv'
<1> SUFFICES ASSUME IInv, HeldInv, [Next]_vars PROVE HeldInv'
  OBVIOUS
<1>1. CASE HandleStep
  BY <1>1, OpenHeld, GrpOpenHeld, IdleHeld, OpenControlsHeld, ErrCardInfoHeld
     DEF HandleStep
<1>2. CASE mixer_add_new_ctls
  BY <1>2, NewControlsHeld
<1>3. CASE mixer_close
  BY <1>3, CloseHeld
<1>4. CASE \E g \in Groups, kind \in Kinds : AddControl(g, kind)
  BY <1>4, IdleHeld DEF AddControl, DriverAdds, mixer
<1>5. CASE \E client \in Clients :
             \/ mixer_ctl_set_value(client) \/ mixer_ctl_set_percent(client)
             \/ SetValueWrite(client)
             \/ mixer_ctl_set_array(client)
             \/ mixer_ctl_set_enum_by_string(client)
  <2>1. UNCHANGED groupVars
    BY <1>5 DEF mixer_ctl_set_value, mixer_ctl_set_percent, SetValueRead,
                SetValueWrite, mixer_ctl_set_array,
                mixer_ctl_set_enum_by_string
  <2> QED
    BY <2>1, IdleHeld DEF groupVars, mixer
<1>6. CASE UNCHANGED vars
  BY <1>6, IdleHeld DEF vars, groupVars, mixer
<1>7. CASE \E client \in Clients : PercentTraps(client)
  BY <1>7, IdleHeld DEF PercentTraps, mixer
<1> QED
  BY <1>1, <1>2, <1>3, <1>4, <1>5, <1>6, <1>7 DEF Next

(* In every reachable state what is held is accounted for, group by group. *)
THEOREM HeldInvariant == Spec => []HeldInv
<1>1. Init => HeldInv
  BY DEF Init, GroupsInit, HeldInv, Opening, LeakOf
<1> QED
  BY <1>1, InvariantHolds, HeldInductive, PTL DEF Spec

LEMMA InvImpliesHandleOwns == IInv /\ HeldInv => HandleOwns
<1> SUFFICES ASSUME IInv, HeldInv, pc = "ready"
             PROVE  /\ Dangling = lost \cap Groups
                    /\ Usable => Owned \subseteq held
                    /\ Usable => held \subseteq Owned \cup Leaks
                                               \cup {<<g, "ctl">> : g \in grps}
  BY DEF HandleOwns
<1>1. Holds /\ grps \subseteq Groups /\ \A g \in Groups \ grps : ctl[g] = <<>>
  BY DEF HeldInv, IInv, Typed, CountsAgree
<1>2. Dangling = lost \cap Groups
  BY <1>1 DEF Dangling, Holds, Live
<1>3. ASSUME Usable PROVE Live = grps
  BY <1>1, <1>2, <1>3 DEF Usable, Live
<1>4. ASSUME Usable PROVE Owned \subseteq held
  <2>1. \A g \in grps : /\ Backend[g] \subseteq held /\ <<g, "grp">> \in held
                        /\ ctl[g] # <<>> => <<g, "ctl">> \in held
    BY <1>1, <1>3, <1>4 DEF Holds, WholeHeld
  <2>2. Handle \subseteq held
    BY <1>1 DEF Holds
  <2> QED
    BY <1>1, <2>1, <2>2 DEF Owned
<1>5. ASSUME Usable
      PROVE  held \subseteq Owned \cup Leaks \cup {<<g, "ctl">> : g \in grps}
  <2> SUFFICES ASSUME NEW r \in held, r \notin Leaks, r \notin Handle
               PROVE  \E g \in grps : r \in Backend[g] \cup {<<g, "grp">>, <<g, "ctl">>}
    BY DEF Owned
  <2>1. PICK g \in grps : r \in Whole(g)
    BY <1>1, <1>3, <1>5 DEF Holds, NothingElse
  <2> QED
    BY <2>1 DEF Whole, Res
<1> QED
  BY <1>2, <1>4, <1>5

(* Whichever of the two groups failed and where, a handle that mixer_open  *)
(* returned holds what its groups say and nothing else but leaks.          *)
THEOREM HandleOwnsCorrect == Spec => []HandleOwns
BY InvariantHolds, HeldInvariant, InvImpliesHandleOwns, PTL

(* A failed mixer_open and mixer_close leave nothing but the known leaks.  *)
THEOREM ClosedCleanCorrect == Spec => []ClosedClean
<1>1. HeldInv => ClosedClean
  BY DEF HeldInv, ClosedClean
<1> QED
  BY <1>1, HeldInvariant, PTL

------------------------------------------------------------------------------
(* What the controls store                                                 *)

Request == [by : {"nothing", "value", "percent"}, arg : Int]
Row(S) == UNION {[1 .. count -> S] : count \in Nat}

StoreTyped ==
  /\ value \in [Groups -> Seq(Row(Int))]
  /\ asked \in [Groups -> Seq(Row(Request))]
  /\ call = [client \in Clients |-> call[client]]
  /\ \A g \in Groups :
       Len(value[g]) = Len(driver[g]) /\ Len(asked[g]) = Len(driver[g])

(* Every control of the handle addresses one of its backend.               *)
AddressesHold ==
  \A g \in Groups : \A n \in 1 .. Len(ctl[g]) :
    Addressed(g, ctl[g][n]) \in 1 .. Len(driver[g])

(* A stored value is what a request asked for.                             *)
Honours(info, v, request) ==
  /\ request.by = "value" => v = request.arg
  /\ request.by = "percent" =>
       info.type = "int" /\ v = percent_to_int(info, request.arg)

Stores(g, k) ==
  LET info == driver[g][k]
  IN  /\ value[g][k] \in [1 .. info.count -> info.min .. info.max]
      /\ asked[g][k] \in [1 .. info.count -> Request]
      /\ <<g, k>> \notin raced =>
           \A i \in 1 .. info.count : Honours(info, value[g][k][i], asked[g][k][i])

ValuesHold == \A g \in Groups : \A k \in 1 .. Len(driver[g]) : Stores(g, k)

(* What a client is about to write: what the control stores, unless it was *)
(* overtaken, but for the value it was asked to set.                       *)
Writes(g, k, this) ==
  LET info == driver[g][k]
  IN  /\ this.id \in 1 .. info.count
      /\ this.by \in {"value", "percent"} /\ this.arg \in Int
      /\ this.ev \in [1 .. info.count -> Int]
      /\ Honours(info, this.ev[this.id], this)
      /\ <<g, k>> \notin raced =>
           \A i \in 1 .. info.count : i # this.id => this.ev[i] = value[g][k][i]

Pending(this) ==
  \E g \in Groups : \E n \in 1 .. Len(ctl[g]) :
    this.c = <<g, n>> /\ Writes(g, Addressed(g, ctl[g][n]), this)

CallsHold == \A client \in Clients : call[client] # NoCall => Pending(call[client])

ValueInv == StoreTyped /\ AddressesHold /\ ValuesHold /\ CallsHold

LEMMA ElemFacts ==
  ASSUME NEW e \in ElemType
  PROVE  /\ e.count \in Nat \ {0} /\ e.min \in Int /\ e.max \in Int /\ e.min <= e.max
         /\ e.min \in Ints(INT_MAX) /\ e.max \in Ints(INT_MAX)
         /\ e.type \in {"int", "bool", "enum"}
         /\ e.type = "bool" => e.min = 0 /\ e.max = 1
<1>1. PICK g \in Groups, kind \in Kinds : e = Elem(g, kind)
  BY DEF ElemType
<1>2. kind \in KindType /\ kind.min <= kind.max
      /\ kind.min \in Ints(INT_MAX) /\ kind.max \in Ints(INT_MAX)
      /\ (kind.type = "bool" => kind.min = 0 /\ kind.max = 1)
  BY KindsAssumption, WidthAssumption
<1>3. CASE g = "hw"
  BY <1>1, <1>2, <1>3 DEF Elem, KindType
<1>4. CASE g # "hw"
  <2>1. e = [kind EXCEPT !.device = 0,
                         !.count = IF kind.type = "enum" THEN 1 ELSE kind.count]
    BY <1>1, <1>4 DEF Elem
  <2>2. /\ e.min = kind.min /\ e.max = kind.max /\ e.type = kind.type
        /\ e.count = IF kind.type = "enum" THEN 1 ELSE kind.count
    BY <1>2, <2>1 DEF KindType
  <2> QED
    BY <1>2, <2>2 DEF KindType
<1> QED
  BY <1>3, <1>4

(* Every control that is added addresses one of the backend's.             *)
LEMMA AppendedAddresses ==
  ASSUME Typed, CountsAgree, NEW g \in Groups, NEW added \in add_controls(g),
         \A n \in 1 .. Len(ctl[g]) : Addressed(g, ctl[g][n]) \in 1 .. Len(driver[g])
  PROVE  LET all == ctl[g] \o added.ids
         IN  /\ \A n \in 1 .. Len(all) : Addressed(g, all[n]) \in 1 .. Len(driver[g])
             /\ Len(ctl[g]) <= Len(all)
             /\ \A n \in 1 .. Len(ctl[g]) : all[n] = ctl[g][n]
<1> DEFINE all == ctl[g] \o added.ids
           old == Len(ctl[g])
           more == Len(added.ids)
           space == Len(driver[g])
<1>1. ctl[g] \in Seq(Nat) /\ old \in Nat /\ space \in Nat
  BY DEF Typed
<1>2. added.ids \in Seq(Nat) /\ more \in Nat /\ more <= space - old
  BY AddedControls, LenProperties
<1>3. \A n \in 1 .. more : added.ids[n] = NumidAt(g, Offset(g) + n)
  BY AddedControls
<1>4. /\ Len(all) = old + more
      /\ \A n \in 1 .. Len(all) :
           all[n] = IF n <= old THEN ctl[g][n] ELSE added.ids[n - old]
  BY <1>1, <1>2, ConcatProperties
<1>5. Offset(g) \in 0 .. old
  BY <1>1 DEF Offset
<1> HIDE DEF all, old, more, space
<1>6. ASSUME NEW n \in 1 .. Len(all) PROVE Addressed(g, all[n]) \in 1 .. space
  <2>1. CASE n <= old
    <3>1. n \in 1 .. old /\ all[n] = ctl[g][n]
      BY <1>1, <1>4, <2>1 DEF old
    <3> QED
      BY <3>1 DEF old, space
  <2>2. CASE ~(n <= old)
    <3>1. n - old \in 1 .. more /\ all[n] = added.ids[n - old]
      BY <1>1, <1>2, <1>4, <2>2
    <3>2. all[n] = NumidAt(g, Offset(g) + (n - old))
      BY <1>3, <3>1
    <3>3. Addressed(g, all[n]) = Offset(g) + (n - old)
      BY <1>1, <1>5, <3>1, <3>2 DEF Addressed, NumidAt, FirstNumid
    <3> QED
      BY <1>1, <1>2, <1>5, <3>1, <3>3
  <2> QED
    BY <2>1, <2>2
<1>7. old <= Len(all) /\ \A n \in 1 .. old : n \in 1 .. Len(all) /\ all[n] = ctl[g][n]
  BY <1>1, <1>2, <1>4
<1> QED
  BY <1>6, <1>7 DEF all, old, space

Extends(s, t) == Len(s) <= Len(t) /\ \A n \in 1 .. Len(s) : t[n] = s[n]

(* No step takes a control away from a group or from its backend.          *)
Grown ==
  \A g \in Groups : Extends(ctl[g], ctl'[g]) /\ Extends(driver[g], driver'[g])

LEMMA GroupsGrow ==
  ASSUME IInv, AddressesHold, HandleStep \/ mixer_add_new_ctls \/ mixer_close
  PROVE  AddressesHold' /\ Grown /\ UNCHANGED driver
<1>1. /\ Typed /\ CountsAgree
      /\ \A g \in Groups : Len(ctl[g]) \in Nat /\ Len(driver[g]) \in Nat
  BY DEF IInv, Typed
<1>2. CASE UNCHANGED <<ctl, driver>>
  <2>1. Grown
    BY <1>1, <1>2 DEF Grown, Extends
  <2> QED
    BY <1>2, <2>1 DEF AddressesHold, Addressed, FirstNumid
<1>3. CASE OpenControls
  <2>1. PICK added \in add_controls(group) :
          ctl' = [ctl EXCEPT ![group] = @ \o added.ids]
    BY <1>3 DEF OpenControls
  <2> DEFINE all == ctl[group] \o added.ids
  <2>2. group \in Groups /\ UNCHANGED driver
    BY <1>1, <1>3 DEF OpenControls, Typed
  <2>3. /\ \A n \in 1 .. Len(all) : Addressed(group, all[n]) \in 1 .. Len(driver[group])
        /\ Len(ctl[group]) <= Len(all)
        /\ \A n \in 1 .. Len(ctl[group]) : all[n] = ctl[group][n]
    BY <1>1, <2>2, AppendedAddresses DEF AddressesHold
  <2>4. ctl'[group] = all /\ \A g \in Groups \ {group} : ctl'[g] = ctl[g]
    BY <1>1, <2>1, <2>2 DEF Typed
  <2> HIDE DEF all
  <2>5. Grown
    BY <1>1, <2>2, <2>3, <2>4 DEF Grown, Extends
  <2>6. AddressesHold'
    <3> SUFFICES ASSUME NEW g \in Groups, NEW n \in 1 .. Len(ctl'[g])
                 PROVE  Addressed(g, ctl'[g][n]) \in 1 .. Len(driver[g])
      BY <2>2 DEF AddressesHold, Addressed, FirstNumid
    <3>1. CASE g = group
      BY <2>3, <2>4, <3>1
    <3>2. CASE g # group
      BY <2>4, <3>2 DEF AddressesHold
    <3> QED
      BY <3>1, <3>2
  <2> QED
    BY <2>2, <2>5, <2>6
<1>4. CASE mixer_add_new_ctls
  <2>1. PICK h \in NewControls("hw"), v \in NewControls("plug") :
          LET added == [hw |-> h, plug |-> v]
          IN  ctl' = [g \in Groups |-> ctl[g] \o added[g].ids]
    BY <1>4 DEF mixer_add_new_ctls
  <2> DEFINE added == [hw |-> h, plug |-> v]
             all(g) == ctl[g] \o added[g].ids
  <2>2. \A g \in Groups : added[g] \in NewControls(g)
    BY DEF Groups
  <2>3. UNCHANGED driver /\ \A g \in Groups : ctl'[g] = all(g)
    BY <1>4, <2>1 DEF mixer_add_new_ctls
  <2> HIDE DEF added
  <2>4. ASSUME NEW g \in Groups
        PROVE  /\ \A n \in 1 .. Len(all(g)) : Addressed(g, all(g)[n]) \in 1 .. Len(driver[g])
               /\ Len(ctl[g]) <= Len(all(g))
               /\ \A n \in 1 .. Len(ctl[g]) : all(g)[n] = ctl[g][n]
    <3>1. CASE g \in grps
      <4>1. added[g] \in add_controls(g)
        BY <2>2, <3>1 DEF NewControls
      <4> QED
        BY <1>1, <4>1, AppendedAddresses DEF AddressesHold
    <3>2. CASE g \notin grps
      <4>1. added[g].ids = <<>> /\ ctl[g] = <<>>
        BY <1>1, <2>2, <3>2 DEF NewControls, CountsAgree
      <4>2. all(g) = <<>>
        BY <4>1
      <4> QED
        BY <4>1, <4>2
    <3> QED
      BY <3>1, <3>2
  <2> HIDE DEF all
  <2>5. Grown
    BY <1>1, <2>3, <2>4 DEF Grown, Extends
  <2>6. AddressesHold'
    BY <2>3, <2>4 DEF AddressesHold, Addressed, FirstNumid
  <2> QED
    BY <2>3, <2>5, <2>6
<1> QED
  BY <1>2, <1>3, <1>4
     DEF HandleStep, mixer_open, mixer_grp_open, SampleOpenFails, CardInfo,
         ErrCardInfo, OpenEnd, UseDangling, mixer_close, mixer

(* Whether a value is what a request asked for depends on no variable.     *)
LEMMA HonoursSame == \A info, v, r : Honours(info, v, r)' <=> Honours(info, v, r)
<1> TAKE info, v, r
<1>1. percent_to_int(info, r.arg)' = percent_to_int(info, r.arg)
  BY Zenon DEF percent_to_int, IntRange, AsInt, Wrap, Ints, Quotient, Size,
         INT_MAX, EINVAL
<1> QED
  BY <1>1 DEF Honours

LEMMA WritesSame ==
  ASSUME NEW g, NEW k, NEW this, Writes(g, k, this), raced \subseteq raced',
         driver'[g][k] = driver[g][k],
         <<g, k>> \notin raced' => value'[g][k] = value[g][k]
  PROVE  Writes(g, k, this)'
<1>1. \A info, v : Honours(info, v, this)' <=> Honours(info, v, this)
  BY HonoursSame
<1> QED
  BY <1>1 DEF Writes

(* A call that is under way is not disturbed by controls that are added.   *)
LEMMA PendingGrows ==
  ASSUME AddressesHold, Grown, UNCHANGED raced,
         \A g \in Groups : \A k \in 1 .. Len(driver[g]) : value'[g][k] = value[g][k],
         NEW this, Pending(this)
  PROVE  Pending(this)'
<1>1. PICK g, n :
        /\ g \in Groups /\ n \in 1 .. Len(ctl[g])
        /\ this.c = <<g, n>> /\ Writes(g, Addressed(g, ctl[g][n]), this)
  BY DEF Pending
<1>2. PICK k : k = Addressed(g, ctl[g][n])
  OBVIOUS
<1>3. /\ k \in 1 .. Len(driver[g]) /\ n \in 1 .. Len(ctl'[g])
      /\ ctl'[g][n] = ctl[g][n] /\ driver'[g][k] = driver[g][k]
      /\ value'[g][k] = value[g][k]
  BY <1>1, <1>2 DEF AddressesHold, Grown, Extends
<1>4. Writes(g, k, this)'
  BY <1>1, <1>2, <1>3, WritesSame
<1>5. k = Addressed(g, ctl[g][n])'
  BY <1>2, <1>3 DEF Addressed, FirstNumid
<1> QED
  BY <1>1, <1>3, <1>4, <1>5 DEF Pending

LEMMA StoresSame ==
  ASSUME NEW g, NEW k, Stores(g, k), raced \subseteq raced',
         driver'[g][k] = driver[g][k],
         value'[g][k] = value[g][k], asked'[g][k] = asked[g][k]
  PROVE  Stores(g, k)'
<1>1. \A info, v, r : Honours(info, v, r)' <=> Honours(info, v, r)
  BY HonoursSame
<1>2. Request' = Request
  BY DEF Request
<1> QED
  BY <1>1, <1>2 DEF Stores

(* The values when a call or a step leaves them alone.                     *)
LEMMA ValuesKept ==
  ASSUME IInv, ValueInv, AddressesHold', Grown, UNCHANGED driver,
         UNCHANGED <<value, asked, raced>>,
         call' = [client \in Clients |-> call'[client]],
         \A client \in Clients : \/ UNCHANGED call[client]
                                 \/ Pending(call'[client])
  PROVE  ValueInv'
<1>1. StoreTyped'
  <2>1. Row(Int)' = Row(Int) /\ Row(Request)' = Row(Request)
    BY DEF Row, Request
  <2> QED
    BY <2>1 DEF ValueInv, StoreTyped
<1>2. ValuesHold'
  <2> SUFFICES ASSUME NEW g \in Groups, NEW k \in 1 .. Len(driver[g])
               PROVE  Stores(g, k)'
    BY DEF ValuesHold
  <2>1. Stores(g, k)
    BY DEF ValueInv, ValuesHold
  <2> QED
    BY <2>1, StoresSame
<1>3. CallsHold'
  <2> SUFFICES ASSUME NEW client \in Clients, call'[client] # NoCall'
               PROVE  \E this : this = call'[client] /\ Pending(this)'
    BY DEF CallsHold, Pending
  <2>1. PICK this : this = call'[client]
    OBVIOUS
  <2>2. NoCall' = NoCall
    BY DEF NoCall, NULL
  <2>3. Pending(this)
    BY <2>1, <2>2 DEF ValueInv, CallsHold
  <2>4. Pending(this)'
    BY <2>3, PendingGrows DEF ValueInv
  <2> QED
    BY <2>1, <2>4
<1> QED
  BY <1>1, <1>2, <1>3 DEF ValueInv

LEMMA GroupsValues ==
  ASSUME IInv, ValueInv, UNCHANGED valueVars,
         \/ HandleStep \/ mixer_add_new_ctls \/ mixer_close \/ UNCHANGED groupVars
  PROVE  ValueInv'
<1>1. AddressesHold' /\ Grown /\ UNCHANGED driver
  <2>1. CASE UNCHANGED groupVars
    <3>1. \A g \in Groups : Len(ctl[g]) \in Nat /\ Len(driver[g]) \in Nat
      BY DEF IInv, Typed
    <3> QED
      BY <2>1, <3>1 DEF ValueInv, AddressesHold, Grown, Extends, groupVars, mixer,
                        Addressed, FirstNumid
  <2> QED
    BY <2>1, GroupsGrow DEF ValueInv
<1>2. UNCHANGED <<value, call, asked, raced>>
  BY DEF valueVars
<1>3. call' = [client \in Clients |-> call'[client]]
  BY <1>2 DEF ValueInv, StoreTyped
<1> QED
  BY <1>1, <1>2, <1>3, ValuesKept

LEMMA AddControlValues ==
  ASSUME IInv, ValueInv, NEW g \in Groups, NEW kind \in Kinds, AddControl(g, kind)
  PROVE  ValueInv'
<1> DEFINE elem == Elem(g, kind)
           last == Len(driver[g]) + 1
<1>1. /\ UNCHANGED <<ctl, call, raced>>
      /\ driver' = [driver EXCEPT ![g] = Append(@, elem)]
      /\ value' = [value EXCEPT ![g] = Append(@, Fill(elem, kind.min))]
      /\ asked' = [asked EXCEPT ![g] = Append(@, Fill(elem, Nothing))]
  BY DEF AddControl, DriverAdds, mixer
<1>2. elem \in ElemType /\ elem.min = kind.min /\ Nothing \in Request
  <2>1. elem \in ElemType
    BY DEF ElemType
  <2>2. kind \in KindType
    BY KindsAssumption
  <2>3. elem.min = kind.min
    BY <2>2 DEF Elem, KindType
  <2> QED
    BY <2>1, <2>3 DEF Nothing, Request
<1>3. /\ elem.count \in Nat \ {0} /\ elem.min \in Int /\ elem.max \in Int
      /\ elem.min <= elem.max
  BY <1>2, ElemFacts
<1> HIDE DEF elem
<1>4. /\ Fill(elem, kind.min) \in [1 .. elem.count -> elem.min .. elem.max]
      /\ Fill(elem, kind.min) \in [1 .. elem.count -> Int]
      /\ Fill(elem, Nothing) \in [1 .. elem.count -> Request]
      /\ \A i \in 1 .. elem.count : Fill(elem, Nothing)[i] = Nothing
  BY <1>2, <1>3 DEF Fill
<1>5. Fill(elem, kind.min) \in Row(Int) /\ Fill(elem, Nothing) \in Row(Request)
  BY <1>3, <1>4 DEF Row
<1>6. /\ driver \in [Groups -> Seq(ElemType)]
      /\ value \in [Groups -> Seq(Row(Int))] /\ asked \in [Groups -> Seq(Row(Request))]
      /\ \A h \in Groups :
           /\ Len(value[h]) = Len(driver[h]) /\ Len(asked[h]) = Len(driver[h])
           /\ Len(driver[h]) \in Nat /\ Len(ctl[h]) \in Nat
  BY DEF IInv, Typed, ValueInv, StoreTyped
<1>7. /\ Append(driver[g], elem) \in Seq(ElemType)
      /\ Len(Append(driver[g], elem)) = last
      /\ \A k \in 1 .. Len(driver[g]) : Append(driver[g], elem)[k] = driver[g][k]
      /\ Append(driver[g], elem)[last] = elem
  BY <1>2, <1>6, AppendProperties
<1>8. /\ Append(value[g], Fill(elem, kind.min)) \in Seq(Row(Int))
      /\ Len(Append(value[g], Fill(elem, kind.min))) = last
      /\ \A k \in 1 .. Len(driver[g]) :
           Append(value[g], Fill(elem, kind.min))[k] = value[g][k]
      /\ Append(value[g], Fill(elem, kind.min))[last] = Fill(elem, kind.min)
  BY <1>5, <1>6, AppendProperties
<1>9. /\ Append(asked[g], Fill(elem, Nothing)) \in Seq(Row(Request))
      /\ Len(Append(asked[g], Fill(elem, Nothing))) = last
      /\ \A k \in 1 .. Len(driver[g]) :
           Append(asked[g], Fill(elem, Nothing))[k] = asked[g][k]
      /\ Append(asked[g], Fill(elem, Nothing))[last] = Fill(elem, Nothing)
  BY <1>5, <1>6, AppendProperties
<1>10. \A h \in Groups : h # g =>
         driver'[h] = driver[h] /\ value'[h] = value[h] /\ asked'[h] = asked[h]
  BY <1>1, <1>6
<1>11. /\ driver'[g] = Append(driver[g], elem)
       /\ value'[g] = Append(value[g], Fill(elem, kind.min))
       /\ asked'[g] = Append(asked[g], Fill(elem, Nothing))
  BY <1>1, <1>6
<1>12. \A h \in Groups : \A k \in 1 .. Len(driver[h]) :
         /\ driver'[h][k] = driver[h][k] /\ value'[h][k] = value[h][k]
         /\ asked'[h][k] = asked[h][k]
  <2> SUFFICES ASSUME NEW h \in Groups, NEW k \in 1 .. Len(driver[h])
               PROVE  /\ driver'[h][k] = driver[h][k] /\ value'[h][k] = value[h][k]
                      /\ asked'[h][k] = asked[h][k]
    OBVIOUS
  <2>1. CASE h = g
    BY <1>7, <1>8, <1>9, <1>11, <2>1
  <2>2. CASE h # g
    BY <1>10, <2>2
  <2> QED
    BY <2>1, <2>2
<1>13. \A h \in Groups : Len(driver[h]) <= Len(driver'[h])
  <2>1. Len(driver[g]) <= Len(driver'[g])
    BY <1>6, <1>7, <1>11
  <2>2. \A h \in Groups \ {g} : Len(driver[h]) <= Len(driver'[h])
    BY <1>6, <1>10
  <2> QED
    BY <2>1, <2>2
<1>14. Grown
  BY <1>1, <1>6, <1>12, <1>13 DEF Grown, Extends
<1>15. AddressesHold'
  <2> SUFFICES ASSUME NEW h \in Groups, NEW n \in 1 .. Len(ctl[h])
               PROVE  Addressed(h, ctl[h][n]) \in 1 .. Len(driver'[h])
    BY <1>1 DEF AddressesHold, Addressed, FirstNumid
  <2>1. Addressed(h, ctl[h][n]) \in 1 .. Len(driver[h])
    BY DEF ValueInv, AddressesHold
  <2>2. Len(driver'[h]) \in Nat
    BY <1>6, <1>7, <1>10, <1>11
  <2> QED
    BY <1>6, <1>13, <2>1, <2>2
<1>16. StoreTyped'
  <2>1. Row(Int)' = Row(Int) /\ Row(Request)' = Row(Request)
    BY DEF Row, Request
  <2>2. value' \in [Groups -> Seq(Row(Int))] /\ asked' \in [Groups -> Seq(Row(Request))]
    BY <1>1, <1>6, <1>8, <1>9
  <2>3. \A h \in Groups :
          Len(value'[h]) = Len(driver'[h]) /\ Len(asked'[h]) = Len(driver'[h])
    BY <1>6, <1>7, <1>8, <1>9, <1>10, <1>11
  <2>4. call' = [client \in Clients |-> call'[client]]
    BY <1>1 DEF ValueInv, StoreTyped
  <2> QED
    BY <2>1, <2>2, <2>3, <2>4 DEF StoreTyped
<1>17. ValuesHold'
  <2> SUFFICES ASSUME NEW h \in Groups, NEW k \in 1 .. Len(driver'[h])
               PROVE  Stores(h, k)'
    BY DEF ValuesHold
  <2>1. CASE k \in 1 .. Len(driver[h])
    <3>1. Stores(h, k)
      BY <2>1 DEF ValueInv, ValuesHold
    <3> QED
      BY <1>1, <1>12, <2>1, <3>1, StoresSame
  <2>2. CASE k \notin 1 .. Len(driver[h])
    <3>1. h = g /\ k = last
      BY <1>6, <1>7, <1>10, <1>11, <2>2
    <3>2. driver'[h][k] = elem /\ value'[h][k] = Fill(elem, kind.min)
          /\ asked'[h][k] = Fill(elem, Nothing)
      BY <1>7, <1>8, <1>9, <1>11, <3>1
    <3>3. \A v : Honours(elem, v, Nothing)'
      BY DEF Honours, Nothing
    <3>4. Request' = Request
      BY DEF Request
    <3> QED
      BY <1>4, <3>2, <3>3, <3>4 DEF Stores
  <2> QED
    BY <2>1, <2>2
<1>18. CallsHold'
  <2> SUFFICES ASSUME NEW client \in Clients, call'[client] # NoCall'
               PROVE  \E this : this = call'[client] /\ Pending(this)'
    BY DEF CallsHold, Pending
  <2>1. PICK this : this = call'[client]
    OBVIOUS
  <2>2. NoCall' = NoCall
    BY DEF NoCall, NULL
  <2>3. Pending(this)
    BY <1>1, <2>1, <2>2 DEF ValueInv, CallsHold
  <2>4. Pending(this)'
    BY <1>1, <1>12, <1>14, <2>3, PendingGrows DEF ValueInv
  <2> QED
    BY <2>1, <2>4
<1> QED
  BY <1>15, <1>16, <1>17, <1>18 DEF ValueInv

(* A call that has read the control and is about to write it.              *)
LEMMA ReadValues ==
  ASSUME IInv, ValueInv, NEW client \in Clients,
         NEW g \in Groups, NEW n \in 1 .. Len(ctl[g]),
         NEW id \in 1 .. InfoOf(<<g, n>>).count, NEW v \in Int,
         NEW by \in {"value", "percent"}, NEW arg \in Int,
         Honours(InfoOf(<<g, n>>), Converted(InfoOf(<<g, n>>), v),
                 [by |-> by, arg |-> arg]),
         SetValueRead(client, <<g, n>>, id, v, by, arg)
  PROVE  ValueInv'
<1> DEFINE k == Addressed(g, ctl[g][n])
           info == driver[g][k]
           this == [c |-> <<g, n>>, id |-> id, by |-> by, arg |-> arg,
                    ev |-> [value[g][k] EXCEPT ![id] = Converted(info, v)]]
<1>1. InfoOf(<<g, n>>) = info /\ ReadAll(<<g, n>>) = value[g][k]
  BY DEF InfoOf, Info, NumidOf, ReadAll, Stored
<1>2. call' = [call EXCEPT ![client] = this] /\ UNCHANGED <<groupVars, value, asked, raced>>
  BY <1>1 DEF SetValueRead
<1>3. k \in 1 .. Len(driver[g]) /\ driver[g] \in Seq(ElemType)
  BY DEF ValueInv, AddressesHold, IInv, Typed
<1>4. /\ info.count \in Nat \ {0} /\ info.min \in Int /\ info.max \in Int
  BY <1>3, ElemFacts
<1>5. value[g][k] \in [1 .. info.count -> info.min .. info.max]
  BY <1>3 DEF ValueInv, ValuesHold, Stores
<1>6. Converted(info, v) \in Int
  BY DEF Converted
<1>7. Pending(this)
  <2> DEFINE ev == [value[g][k] EXCEPT ![id] = Converted(info, v)]
  <2>1. id \in 1 .. info.count /\ Honours(info, Converted(info, v), [by |-> by, arg |-> arg])
    BY <1>1
  <2>2. /\ ev \in [1 .. info.count -> Int] /\ ev[id] = Converted(info, v)
        /\ \A i \in 1 .. info.count : i # id => ev[i] = value[g][k][i]
    BY <1>4, <1>5, <1>6, <2>1
  <2>3. /\ this.id = id /\ this.by = by /\ this.arg = arg /\ this.ev = ev
        /\ this.c = <<g, n>>
    OBVIOUS
  <2> HIDE DEF ev, this, info
  <2>4. Honours(info, this.ev[this.id], this)
    BY <2>1, <2>2, <2>3 DEF Honours
  <2>5. Writes(g, k, this)
    BY <2>1, <2>2, <2>3, <2>4 DEF Writes, info
  <2> QED
    BY <2>3, <2>5 DEF Pending
<1> HIDE DEF this
<1>8. AddressesHold' /\ Grown /\ UNCHANGED driver
  <2>1. \A h \in Groups : Len(ctl[h]) \in Nat /\ Len(driver[h]) \in Nat
    BY DEF IInv, Typed
  <2> QED
    BY <1>2, <2>1 DEF ValueInv, AddressesHold, Grown, Extends, groupVars, mixer,
                      Addressed, FirstNumid
<1>9. call = [c \in Clients |-> call[c]]
  BY DEF ValueInv, StoreTyped
<1>10. /\ call' = [c \in Clients |-> call'[c]]
       /\ \A other \in Clients : \/ UNCHANGED call[other]
                                 \/ Pending(call'[other])
  BY <1>2, <1>7, <1>9
<1> QED
  BY <1>2, <1>8, <1>10, ValuesKept

(* ELEM_WRITE of values that honour the requests; the calls that have read *)
(* the control go on with what is no longer there, and raced says so.      *)
LEMMA WriteValues ==
  ASSUME IInv, ValueInv, NEW client \in Clients, UNCHANGED groupVars,
         NEW g \in Groups, NEW n \in 1 .. Len(ctl[g]), NEW k, NEW ev, NEW requests,
         k = Addressed(g, ctl[g][n]),
         ev \in [1 .. driver[g][k].count -> Int],
         requests \in [1 .. driver[g][k].count -> Request],
         <<g, k>> \notin raced =>
           \A i \in 1 .. driver[g][k].count : Honours(driver[g][k], ev[i], requests[i]),
         ElemWrite(client, <<g, n>>, ev, requests),
         call' = [call EXCEPT ![client] = NoCall]
  PROVE  ValueInv'
<1> DEFINE info == driver[g][k]
<1>1. /\ k \in 1 .. Len(driver[g]) /\ driver[g] \in Seq(ElemType)
      /\ UNCHANGED <<ctl, driver>>
      /\ \A h \in Groups : Len(ctl[h]) \in Nat /\ Len(driver[h]) \in Nat
  BY DEF ValueInv, AddressesHold, IInv, Typed, groupVars, mixer
<1>2. info.count \in Nat \ {0} /\ info.min \in Int /\ info.max \in Int
  BY <1>1, ElemFacts
<1>3. AddressesHold' /\ Grown
  BY <1>1 DEF ValueInv, AddressesHold, Grown, Extends, Addressed, FirstNumid
<1>4. /\ call = [c \in Clients |-> call[c]]
      /\ value \in [Groups -> Seq(Row(Int))] /\ asked \in [Groups -> Seq(Row(Request))]
      /\ \A h \in Groups : Len(value[h]) = Len(driver[h]) /\ Len(asked[h]) = Len(driver[h])
  BY DEF ValueInv, StoreTyped
<1>5. /\ call' = [c \in Clients |-> call'[c]]
      /\ \A other \in Clients : call'[other] = IF other = client THEN NoCall ELSE call[other]
  BY <1>4
<1>6. ElemWrite(client, <<g, n>>, ev, requests) =
        IF Accepts(info, ev)
        THEN /\ value' = [value EXCEPT ![g][k] = ev]
             /\ asked' = [asked EXCEPT ![g][k] = requests]
             /\ raced' = IF Overtakes(client, g, k) THEN raced \cup {<<g, k>>}
                                                    ELSE raced
        ELSE UNCHANGED <<value, asked, raced>>
  BY DEF ElemWrite, InfoOf, Info, NumidOf
<1> HIDE DEF info
<1>7. CASE UNCHANGED <<value, asked, raced>>
  <2>1. ValuesHold' /\ StoreTyped'
    <3>1. \A h \in Groups : \A j \in 1 .. Len(driver[h]) : Stores(h, j)'
      BY <1>1, <1>7, StoresSame DEF ValueInv, ValuesHold
    <3>2. Row(Int)' = Row(Int) /\ Row(Request)' = Row(Request)
      BY DEF Row, Request
    <3> QED
      BY <1>1, <1>4, <1>5, <1>7, <3>1, <3>2 DEF ValuesHold, StoreTyped
  <2>2. CallsHold'
    <3> SUFFICES ASSUME NEW other \in Clients, call'[other] # NoCall'
                 PROVE  \E this : this = call'[other] /\ Pending(this)'
      BY DEF CallsHold, Pending
    <3>1. PICK this : this = call'[other]
      OBVIOUS
    <3>2. NoCall' = NoCall
      BY DEF NoCall, NULL
    <3>3. Pending(this)
      BY <1>5, <3>1, <3>2 DEF ValueInv, CallsHold
    <3>4. Pending(this)'
      BY <1>3, <1>7, <3>3, PendingGrows DEF ValueInv
    <3> QED
      BY <3>1, <3>4
  <2> QED
    BY <1>3, <2>1, <2>2 DEF ValueInv
<1>8. CASE /\ Accepts(info, ev)
           /\ value' = [value EXCEPT ![g][k] = ev]
           /\ asked' = [asked EXCEPT ![g][k] = requests]
           /\ raced' = IF Overtakes(client, g, k) THEN raced \cup {<<g, k>>}
                                                  ELSE raced
  <2>1. raced \subseteq raced'
    BY <1>8
  <2>2. ev \in [1 .. info.count -> info.min .. info.max]
    BY <1>2, <1>8 DEF Accepts, info
  <2>3. ev \in Row(Int) /\ requests \in Row(Request)
    BY <1>2 DEF Row, info
  <2>4. /\ value[g] \in Seq(Row(Int)) /\ k \in 1 .. Len(value[g])
        /\ asked[g] \in Seq(Row(Request)) /\ k \in 1 .. Len(asked[g])
    BY <1>1, <1>4
  <2>5. /\ [value[g] EXCEPT ![k] = ev] \in Seq(Row(Int))
        /\ Len([value[g] EXCEPT ![k] = ev]) = Len(value[g])
        /\ [asked[g] EXCEPT ![k] = requests] \in Seq(Row(Request))
        /\ Len([asked[g] EXCEPT ![k] = requests]) = Len(asked[g])
    BY <2>3, <2>4, ExceptSeq
  <2>6. /\ value' = [value EXCEPT ![g] = [value[g] EXCEPT ![k] = ev]]
        /\ asked' = [asked EXCEPT ![g] = [asked[g] EXCEPT ![k] = requests]]
    BY <1>4, <1>8
  <2>7. StoreTyped'
    <3>1. Row(Int)' = Row(Int) /\ Row(Request)' = Row(Request)
      BY DEF Row, Request
    <3>2. value' \in [Groups -> Seq(Row(Int))] /\ asked' \in [Groups -> Seq(Row(Request))]
      BY <1>4, <2>5, <2>6
    <3>3. \A h \in Groups : Len(value'[h]) = Len(driver[h]) /\ Len(asked'[h]) = Len(driver[h])
      BY <1>4, <2>5, <2>6
    <3> QED
      BY <1>1, <1>5, <3>1, <3>2, <3>3 DEF StoreTyped
  <2>8. /\ value'[g][k] = ev /\ asked'[g][k] = requests
        /\ \A h \in Groups : \A j \in 1 .. Len(driver[h]) :
             <<h, j>> # <<g, k>> =>
               value'[h][j] = value[h][j] /\ asked'[h][j] = asked[h][j]
    <3>1. value'[g] = [value[g] EXCEPT ![k] = ev] /\ asked'[g] = [asked[g] EXCEPT ![k] = requests]
      BY <1>4, <2>6
    <3>2. \A h \in Groups : h # g => value'[h] = value[h] /\ asked'[h] = asked[h]
      BY <1>4, <2>6
    <3>3. value'[g][k] = ev /\ asked'[g][k] = requests
      BY <2>4, <3>1
    <3>4. \A j \in 1 .. Len(driver[g]) :
            j # k => value'[g][j] = value[g][j] /\ asked'[g][j] = asked[g][j]
      BY <1>4, <2>4, <3>1
    <3> QED
      BY <3>2, <3>3, <3>4
  <2>9. ValuesHold'
    <3> SUFFICES ASSUME NEW h \in Groups, NEW j \in 1 .. Len(driver[h])
                 PROVE  Stores(h, j)'
      BY <1>1 DEF ValuesHold
    <3>1. CASE <<h, j>> = <<g, k>>
      <4>1. h = g /\ j = k
        BY <3>1
      <4>2. \A x, v, r : Honours(x, v, r)' <=> Honours(x, v, r)
        BY HonoursSame
      <4>3. Request' = Request
        BY DEF Request
      <4>4. driver'[h][j] = info
        BY <1>1, <4>1 DEF info
      <4>5. <<g, k>> \notin raced' =>
              \A i \in 1 .. info.count : Honours(info, ev[i], requests[i])
        BY <2>1 DEF info
      <4>6. requests \in [1 .. info.count -> Request]
        BY DEF info
      <4> QED
        BY <2>2, <2>8, <4>1, <4>2, <4>3, <4>4, <4>5, <4>6 DEF Stores
    <3>2. CASE <<h, j>> # <<g, k>>
      <4>1. Stores(h, j)
        BY DEF ValueInv, ValuesHold
      <4> QED
        BY <1>1, <2>1, <2>8, <3>2, <4>1, StoresSame
    <3> QED
      BY <3>1, <3>2
  <2>10. CallsHold'
    <3> SUFFICES ASSUME NEW other \in Clients, call'[other] # NoCall'
                 PROVE  \E this : this = call'[other] /\ Pending(this)'
      BY DEF CallsHold, Pending
    <3>1. PICK this : this = call'[other]
      OBVIOUS
    <3>2. NoCall' = NoCall
      BY DEF NoCall, NULL
    <3>3. other # client /\ this = call[other] /\ this # NoCall
      BY <1>5, <3>1, <3>2
    <3>4. PICK h, m : /\ h \in Groups /\ m \in 1 .. Len(ctl[h])
                      /\ this.c = <<h, m>> /\ Writes(h, Addressed(h, ctl[h][m]), this)
      BY <3>3 DEF ValueInv, CallsHold, Pending
    <3>5. PICK j : j = Addressed(h, ctl[h][m])
      OBVIOUS
    <3>6. j \in 1 .. Len(driver[h])
      BY <3>4, <3>5 DEF ValueInv, AddressesHold
    <3>7. <<h, j>> \notin raced' => value'[h][j] = value[h][j]
      <4>1. CASE <<h, j>> = <<g, k>>
        <5>1. h = g /\ j = k
          BY <4>1
        <5>2. Overtakes(client, g, k)
          BY <3>3, <3>4, <3>5, <5>1 DEF Overtakes, NumidOf
        <5> QED
          BY <1>8, <4>1, <5>2
      <4>2. CASE <<h, j>> # <<g, k>>
        BY <2>8, <3>4, <3>6, <4>2
      <4> QED
        BY <4>1, <4>2
    <3>8. Writes(h, j, this)'
      BY <1>1, <2>1, <3>4, <3>5, <3>7, WritesSame
    <3>9. j = Addressed(h, ctl[h][m])' /\ m \in 1 .. Len(ctl'[h])
      BY <1>1, <3>4, <3>5 DEF Addressed, FirstNumid
    <3>10. Pending(this)'
      BY <3>4, <3>8, <3>9 DEF Pending
    <3> QED
      BY <3>1, <3>10
  <2> QED
    BY <1>3, <2>7, <2>9, <2>10 DEF ValueInv
<1> QED
  BY <1>6, <1>7, <1>8

(* The control at a place of the handle.                                   *)
LEMMA PlaceFacts ==
  ASSUME IInv, ValueInv, NEW g \in grps, NEW n \in DOMAIN ctl[g]
  PROVE  LET k == Addressed(g, ctl[g][n])
             info == driver[g][k]
         IN  /\ g \in Groups /\ n \in 1 .. Len(ctl[g]) /\ k \in 1 .. Len(driver[g])
             /\ InfoOf(<<g, n>>) = info /\ info \in ElemType
             /\ Stored(<<g, n>>) = value[g][k] /\ Stores(g, k)
<1>1. g \in Groups /\ n \in 1 .. Len(ctl[g])
  BY DEF IInv, Typed
<1>2. Addressed(g, ctl[g][n]) \in 1 .. Len(driver[g]) /\ driver[g] \in Seq(ElemType)
  BY <1>1 DEF ValueInv, AddressesHold, IInv, Typed
<1> QED
  BY <1>1, <1>2 DEF ValueInv, ValuesHold, InfoOf, Info, NumidOf, Stored

LEMMA QuotientTyped ==
  ASSUME NEW a \in Int
  PROVE  Quotient(a, 100) \in Int
BY DEF Quotient, Size

LEMMA AsIntTyped ==
  ASSUME NEW x \in Int
  PROVE  AsInt(x) \in Int
<1>1. INT_MAX \in Nat
  BY KindsAssumption DEF INT_MAX
<1>2. x + INT_MAX + 1 \in Int /\ 2 * (INT_MAX + 1) \in Nat \ {0}
  BY <1>1
<1>3. (x + INT_MAX + 1) % (2 * (INT_MAX + 1)) \in Int
  BY <1>2
<1> QED
  BY <1>1, <1>3 DEF AsInt, Wrap

LEMMA SetValueValues ==
  ASSUME IInv, ValueInv, NEW client \in Clients,
         mixer_ctl_set_value(client) \/ mixer_ctl_set_percent(client)
  PROVE  ValueInv'
<1>1. CASE mixer_ctl_set_value(client)
  <2> SUFFICES ASSUME NEW g \in grps, NEW n \in DOMAIN ctl[g],
                      NEW id \in 1 .. InfoOf(<<g, n>>).count,
                      SetValueRead(client, <<g, n>>, id, InfoOf(<<g, n>>).max, "value",
                                   InfoOf(<<g, n>>).max)
               PROVE  ValueInv'
    BY <1>1 DEF mixer_ctl_set_value
  <2> DEFINE info == InfoOf(<<g, n>>)
  <2>3. /\ info \in ElemType /\ g \in Groups /\ n \in 1 .. Len(ctl[g])
    BY PlaceFacts
  <2>4. info.max \in Int /\ (info.type = "bool" => info.max = 1)
    BY <2>3, ElemFacts
  <2> HIDE DEF info
  <2>5. Converted(info, info.max) = info.max
    BY <2>4 DEF Converted
  <2>6. Honours(info, Converted(info, info.max), [by |-> "value", arg |-> info.max])
    BY <2>5 DEF Honours
  <2> QED
    BY <2>3, <2>4, <2>6, ReadValues DEF info
<1>2. CASE mixer_ctl_set_percent(client)
  <2> SUFFICES ASSUME NEW g \in grps, NEW n \in DOMAIN ctl[g], NEW percent \in Percents,
                      InfoOf(<<g, n>>).type = "int",
                      NEW id \in 1 .. InfoOf(<<g, n>>).count,
                      SetValueRead(client, <<g, n>>, id,
                                   percent_to_int(InfoOf(<<g, n>>), percent),
                                   "percent", percent)
               PROVE  ValueInv'
    BY <1>2 DEF mixer_ctl_set_percent
  <2> DEFINE info == InfoOf(<<g, n>>)
  <2>4. /\ info \in ElemType /\ g \in Groups /\ n \in 1 .. Len(ctl[g])
        /\ info.type = "int" /\ percent \in Int
    BY PlaceFacts, ClientsAssumption
  <2>5. info.min \in Int /\ info.max \in Int
    BY <2>4, ElemFacts
  <2> HIDE DEF info
  <2>6. percent_to_int(info, percent) \in Int
    <3>1. IntRange(info) \in Int
      BY <2>5, AsIntTyped DEF IntRange
    <3>2. AsInt(IntRange(info) * percent) \in Int
      BY <2>4, <3>1, AsIntTyped
    <3>3. Quotient(AsInt(IntRange(info) * percent), 100) \in Int
      BY <3>2, QuotientTyped
    <3> QED
      BY <2>5, <3>3, AsIntTyped DEF percent_to_int, EINVAL
  <2>7. Converted(info, percent_to_int(info, percent)) = percent_to_int(info, percent)
    BY <2>4 DEF Converted
  <2>8. Honours(info, Converted(info, percent_to_int(info, percent)),
                [by |-> "percent", arg |-> percent])
    BY <2>4, <2>7 DEF Honours
  <2> QED
    BY <2>4, <2>6, <2>8, ReadValues DEF info
<1> QED
  BY <1>1, <1>2

LEMMA SetValueWriteValues ==
  ASSUME IInv, ValueInv, NEW client \in Clients, SetValueWrite(client)
  PROVE  ValueInv'
<1>1. PICK this : this = call[client]
  OBVIOUS
<1>2. PICK g, n :
        /\ g \in Groups /\ n \in 1 .. Len(ctl[g])
        /\ this.c = <<g, n>> /\ Writes(g, Addressed(g, ctl[g][n]), this)
  BY <1>1 DEF SetValueWrite, ValueInv, CallsHold, Pending
<1>3. PICK k : k = Addressed(g, ctl[g][n])
  OBVIOUS
<1> DEFINE info == driver[g][k]
           requests == [asked[g][k] EXCEPT ![this.id] = [by |-> this.by, arg |-> this.arg]]
<1>4. /\ ElemWrite(client, <<g, n>>, this.ev, requests)
      /\ call' = [call EXCEPT ![client] = NoCall] /\ UNCHANGED groupVars
  BY <1>1, <1>2, <1>3 DEF SetValueWrite, NumidOf
<1>5. k \in 1 .. Len(driver[g]) /\ Stores(g, k) /\ Writes(g, k, this)
  BY <1>2, <1>3 DEF ValueInv, AddressesHold, ValuesHold
<1>6. /\ this.id \in 1 .. info.count /\ this.ev \in [1 .. info.count -> Int]
      /\ asked[g][k] \in [1 .. info.count -> Request]
      /\ [by |-> this.by, arg |-> this.arg] \in Request
      /\ Honours(info, this.ev[this.id], this)
  BY <1>5 DEF Writes, Stores, Request
<1>7. Honours(info, this.ev[this.id], [by |-> this.by, arg |-> this.arg])
  BY <1>6 DEF Honours
<1>8. <<g, k>> \notin raced =>
        \A i \in 1 .. info.count : i # this.id => Honours(info, this.ev[i], asked[g][k][i])
  BY <1>5 DEF Writes, Stores
<1> HIDE DEF info
<1>9. /\ requests \in [1 .. info.count -> Request]
      /\ requests[this.id] = [by |-> this.by, arg |-> this.arg]
      /\ \A i \in 1 .. info.count : i # this.id => requests[i] = asked[g][k][i]
  BY <1>6
<1> HIDE DEF requests
<1>10. <<g, k>> \notin raced =>
         \A i \in 1 .. info.count : Honours(info, this.ev[i], requests[i])
  <2> SUFFICES ASSUME <<g, k>> \notin raced, NEW i \in 1 .. info.count
               PROVE  Honours(info, this.ev[i], requests[i])
    OBVIOUS
  <2>1. CASE i = this.id
    BY <1>7, <1>9, <2>1
  <2>2. CASE i # this.id
    BY <1>8, <1>9, <2>2
  <2> QED
    BY <2>1, <2>2
<1> QED
  BY <1>2, <1>3, <1>4, <1>6, <1>9, <1>10, WriteValues DEF info

LEMMA SetAllValues ==
  ASSUME IInv, ValueInv, NEW client \in Clients,
         mixer_ctl_set_array(client) \/ mixer_ctl_set_enum_by_string(client)
  PROVE  ValueInv'
<1>1. call' = [call EXCEPT ![client] = NoCall] /\ UNCHANGED groupVars
  BY DEF mixer_ctl_set_array, mixer_ctl_set_enum_by_string, Begin, ValueInv, StoreTyped
<1>2. ASSUME NEW g \in grps, NEW n \in DOMAIN ctl[g], NEW ev, NEW requests,
             ev \in [1 .. InfoOf(<<g, n>>).count -> Int],
             requests \in [1 .. InfoOf(<<g, n>>).count -> Request],
             \A i \in 1 .. InfoOf(<<g, n>>).count :
               \/ requests[i].by = "nothing"
               \/ requests[i].by = "value" /\ ev[i] = requests[i].arg,
             ElemWrite(client, <<g, n>>, ev, requests)
      PROVE  ValueInv'
  <2>1. PICK k : k = Addressed(g, ctl[g][n])
    OBVIOUS
  <2>2. /\ g \in Groups /\ n \in 1 .. Len(ctl[g])
        /\ InfoOf(<<g, n>>) = driver[g][k]
    BY <2>1, PlaceFacts
  <2>3. \A i \in 1 .. driver[g][k].count : Honours(driver[g][k], ev[i], requests[i])
    BY <1>2, <2>2 DEF Honours
  <2> QED
    BY <1>1, <1>2, <2>1, <2>2, <2>3, WriteValues
<1>3. CASE mixer_ctl_set_array(client)
  <2> SUFFICES ASSUME NEW g \in grps, NEW n \in DOMAIN ctl[g],
                      NEW count \in 1 .. InfoOf(<<g, n>>).count,
                      ElemWrite(client, <<g, n>>,
                        [i \in 1 .. InfoOf(<<g, n>>).count |->
                           IF i <= count THEN InfoOf(<<g, n>>).min ELSE 0],
                        [i \in 1 .. InfoOf(<<g, n>>).count |->
                           IF i <= count
                           THEN [by |-> "value", arg |-> InfoOf(<<g, n>>).min]
                           ELSE Nothing])
               PROVE  ValueInv'
    BY <1>3 DEF mixer_ctl_set_array
  <2> DEFINE info == InfoOf(<<g, n>>)
             ev == [i \in 1 .. info.count |-> IF i <= count THEN info.min ELSE 0]
             requests == [i \in 1 .. info.count |->
                            IF i <= count THEN [by |-> "value", arg |-> info.min] ELSE Nothing]
  <2>3. info \in ElemType
    BY PlaceFacts
  <2>4. info.min \in Int
    BY <2>3, ElemFacts
  <2>5. ElemWrite(client, <<g, n>>, ev, requests)
    OBVIOUS
  <2>6. /\ ev \in [1 .. info.count -> Int] /\ requests \in [1 .. info.count -> Request]
        /\ \A i \in 1 .. info.count :
             \/ requests[i].by = "nothing"
             \/ requests[i].by = "value" /\ ev[i] = requests[i].arg
    <3> HIDE DEF info
    <3>1. [by |-> "value", arg |-> info.min] \in Request /\ Nothing \in Request
      BY <2>4 DEF Request, Nothing
    <3> QED
      BY <2>4, <3>1 DEF Nothing
  <2> HIDE DEF ev, requests
  <2> QED
    BY <1>2, <2>5, <2>6
<1>4. CASE mixer_ctl_set_enum_by_string(client)
  <2> SUFFICES ASSUME NEW g \in grps, NEW n \in DOMAIN ctl[g],
                      NEW item \in 0 .. InfoOf(<<g, n>>).max,
                      ElemWrite(client, <<g, n>>,
                        [Fill(InfoOf(<<g, n>>), 0) EXCEPT ![1] = item],
                        [Fill(InfoOf(<<g, n>>), Nothing) EXCEPT
                           ![1] = [by |-> "value", arg |-> item]])
               PROVE  ValueInv'
    BY <1>4 DEF mixer_ctl_set_enum_by_string
  <2> DEFINE info == InfoOf(<<g, n>>)
             ev == [Fill(info, 0) EXCEPT ![1] = item]
             requests == [Fill(info, Nothing) EXCEPT ![1] = [by |-> "value", arg |-> item]]
  <2>3. info \in ElemType
    BY PlaceFacts
  <2>4. item \in Int
    BY <2>3, ElemFacts
  <2>5. ElemWrite(client, <<g, n>>, ev, requests)
    OBVIOUS
  <2>6. /\ ev \in [1 .. info.count -> Int] /\ requests \in [1 .. info.count -> Request]
        /\ \A i \in 1 .. info.count :
             \/ requests[i].by = "nothing"
             \/ requests[i].by = "value" /\ ev[i] = requests[i].arg
    <3> HIDE DEF info
    <3>1. [by |-> "value", arg |-> item] \in Request /\ Nothing \in Request
      BY <2>4 DEF Request, Nothing
    <3>2. ev = [i \in 1 .. info.count |-> IF i = 1 THEN item ELSE 0]
      BY DEF Fill
    <3>3. requests = [i \in 1 .. info.count |->
                        IF i = 1 THEN [by |-> "value", arg |-> item] ELSE Nothing]
      BY DEF Fill
    <3> HIDE DEF ev, requests
    <3>4. ev \in [1 .. info.count -> Int]
      BY <2>4, <3>2
    <3>5. requests \in [1 .. info.count -> Request]
      BY <3>1, <3>3
    <3>6. ASSUME NEW i \in 1 .. info.count
          PROVE  \/ requests[i].by = "nothing"
                 \/ requests[i].by = "value" /\ ev[i] = requests[i].arg
      BY <3>2, <3>3 DEF Nothing
    <3> QED
      BY <3>4, <3>5, <3>6
  <2> HIDE DEF ev, requests
  <2> QED
    BY <1>2, <2>5, <2>6
<1> QED
  BY <1>3, <1>4

LEMMA ValueInductive == IInv /\ ValueInv /\ [Next]_vars => ValueInv'
<1> SUFFICES ASSUME IInv, ValueInv, [Next]_vars PROVE ValueInv'
  OBVIOUS
<1>1. CASE (HandleStep \/ mixer_add_new_ctls \/ mixer_close) /\ UNCHANGED valueVars
  BY <1>1, GroupsValues
<1>2. CASE \E g \in Groups, kind \in Kinds : AddControl(g, kind)
  BY <1>2, AddControlValues
<1>3. ASSUME NEW client \in Clients,
             \/ mixer_ctl_set_value(client) \/ mixer_ctl_set_percent(client)
             \/ SetValueWrite(client)
             \/ mixer_ctl_set_array(client)
             \/ mixer_ctl_set_enum_by_string(client)
      PROVE  ValueInv'
  BY <1>3, SetValueValues, SetValueWriteValues, SetAllValues
<1>4. CASE UNCHANGED vars
  BY <1>4, GroupsValues DEF vars
<1>5. CASE \E client \in Clients : PercentTraps(client)
  <2>1. /\ UNCHANGED <<driver, ctl>> /\ AddressesHold
        /\ UNCHANGED <<value, call, asked, raced>>
    BY <1>5 DEF PercentTraps, mixer, ValueInv
  <2>2. AddressesHold' /\ Grown
    <3>1. \A g \in Groups : Len(ctl[g]) \in Nat /\ Len(driver[g]) \in Nat
      BY DEF IInv, Typed
    <3> QED
      BY <2>1, <3>1 DEF AddressesHold, Addressed, FirstNumid, Grown, Extends
  <2>3. call' = [client \in Clients |-> call'[client]]
    BY <2>1 DEF ValueInv, StoreTyped
  <2> QED
    BY <2>1, <2>2, <2>3, ValuesKept
<1> QED
  BY <1>1, <1>2, <1>3, <1>4, <1>5 DEF Next

(* Every value is in its control's range and, unless the control was raced *)
(* for, what the last request that was accepted asked for.                 *)
THEOREM ValueInvariant == Spec => []ValueInv
<1>1. Init => ValueInv
  <2> SUFFICES ASSUME Init PROVE ValueInv
    OBVIOUS
  <2>1. \A g \in Groups : ctl[g] = <<>> /\ driver[g] = <<>> /\ value[g] = <<>> /\ asked[g] = <<>>
    BY DEF Init, GroupsInit
  <2>2. StoreTyped
    BY <2>1 DEF Init, StoreTyped
  <2>3. AddressesHold /\ ValuesHold
    BY <2>1 DEF AddressesHold, ValuesHold
  <2>4. CallsHold
    BY DEF Init, CallsHold
  <2> QED
    BY <2>2, <2>3, <2>4 DEF ValueInv
<1> QED
  BY <1>1, InvariantHolds, ValueInductive, PTL DEF Spec

(* A control of the handle shows the k-th one of a backend.                *)
Shows(c, g, k) ==
  LET info == driver[g][k]
  IN  /\ g \in Groups /\ k \in 1 .. Len(driver[g]) /\ info \in ElemType
      /\ InfoOf(c) = info /\ Stored(c) = value[g][k] /\ Asked(c) = asked[g][k]
      /\ value[g][k] \in [1 .. info.count -> info.min .. info.max]
      /\ asked[g][k] \in [1 .. info.count -> Request]
      /\ Unraced(c) =>
           \A i \in 1 .. info.count : Honours(info, value[g][k][i], asked[g][k][i])

LEMMA IdFacts ==
  ASSUME IInv, ValueInv, Usable, NEW id \in Ids
  PROVE  \E g, k : Shows(mixer_get_ctl(id), g, k)
<1>1. PICK g \in grps : \E n \in DOMAIN ctl[g] : mixer_get_ctl(id) = <<g, n>>
  <2>1. mixer_get_ctl(id) \in UNION {{<<g, n>> : n \in DOMAIN ctl[g]} : g \in grps}
    BY InvImpliesIdsDense DEF IdsDense
  <2> QED
    BY <2>1
<1>2. PICK n \in DOMAIN ctl[g] : mixer_get_ctl(id) = <<g, n>>
  BY <1>1
<1> DEFINE c == <<g, n>>
           k == Addressed(g, ctl[g][n])
<1>3. /\ g \in Groups /\ k \in 1 .. Len(driver[g]) /\ driver[g][k] \in ElemType
      /\ InfoOf(c) = driver[g][k] /\ Stored(c) = value[g][k] /\ Stores(g, k)
  BY PlaceFacts
<1>4. Asked(c) = asked[g][k] /\ (Unraced(c) => <<g, k>> \notin raced)
  BY DEF Asked, Unraced, NumidOf
<1>5. mixer_get_ctl(id) = c
  BY <1>2
<1> HIDE DEF c, k
<1> QED
  BY <1>3, <1>4, <1>5 DEF Stores, Shows

LEMMA InvImpliesSetsHold == IInv /\ ValueInv => SetsHold
<1> SUFFICES ASSUME IInv, ValueInv, Usable, NEW id \in Ids,
                    Unraced(mixer_get_ctl(id)),
                    NEW i \in DOMAIN Asked(mixer_get_ctl(id)),
                    Asked(mixer_get_ctl(id))[i].by = "value"
             PROVE  LET c == mixer_get_ctl(id)
                    IN  /\ mixer_ctl_get_value(c, i) = Asked(c)[i].arg
                        /\ InfoOf(c).type # "enum" =>
                             mixer_ctl_get_array(c, i)[i] = Asked(c)[i].arg
  BY DEF SetsHold
<1>1. PICK c : c = mixer_get_ctl(id)
  OBVIOUS
<1>2. PICK g, k : Shows(c, g, k)
  BY <1>1, IdFacts
<1> DEFINE info == driver[g][k]
<1>3. /\ info.count \in Nat /\ info.min \in Int /\ info.max \in Int
      /\ info.type = "bool" => info.min = 0 /\ info.max = 1
  BY <1>2, ElemFacts DEF Shows
<1>4. i \in 1 .. info.count /\ Stored(c)[i] = Asked(c)[i].arg
  BY <1>1, <1>2 DEF Honours, Shows
<1>5. Stored(c)[i] \in info.min .. info.max
  BY <1>2, <1>4 DEF Shows
<1>6. mixer_ctl_get_value(c, i) = Stored(c)[i]
  <2> HIDE DEF info
  <2>1. InfoOf(c) = info
    BY <1>2 DEF info, Shows
  <2> QED
    BY <1>3, <1>5, <2>1 DEF mixer_ctl_get_value
<1>7. mixer_ctl_get_array(c, i)[i] = Stored(c)[i]
  <2> HIDE DEF info
  <2>1. i \in 1 .. i /\ i \in Nat
    BY <1>3, <1>4
  <2> QED
    BY <2>1 DEF mixer_ctl_get_array, SubSeq
<1> QED
  BY <1>1, <1>4, <1>6, <1>7

(* Every value that was set is read back, by either call, until it is set  *)
(* again or the control is raced for.                                      *)
THEOREM SetsHoldCorrect == Spec => []SetsHold
BY InvariantHolds, ValueInvariant, InvImpliesSetsHold, PTL

------------------------------------------------------------------------------
(* Percentages                                                             *)

LEMMA QuotientBounds ==
  ASSUME NEW a \in Nat, NEW b \in Nat \ {0}
  PROVE  /\ Quotient(a, b) \in Nat
         /\ b * Quotient(a, b) <= a /\ a < b * Quotient(a, b) + b
BY DEF Quotient, Size

(* What fits into an int or a long is kept.                                *)
LEMMA WrapFits ==
  ASSUME NEW x \in Ints(INT_MAX)
  PROVE  AsInt(x) = x /\ AsLong(x) = x
<1>1. INT_MAX \in Int /\ LONG_MAX \in Int /\ INT_MAX <= LONG_MAX
  BY KindsAssumption, WidthAssumption DEF INT_MAX
<1>2. x \in Ints(LONG_MAX)
  BY <1>1 DEF Ints
<1> QED
  BY <1>2 DEF AsInt, AsLong, Wrap

(* Converting a percentage and back loses less than one step.              *)
LEMMA PercentBack ==
  ASSUME NEW range \in Nat \ {0}, NEW percent \in 0 .. 100
  PROVE  LET steps == Quotient(range * percent, 100)
             back == Quotient(steps * 100, range)
         IN  /\ steps \in Nat /\ back \in Nat /\ back <= percent
             /\ (percent - back - 1) * range < 100
             /\ percent = 0 => steps = 0
             /\ percent = 100 => steps = range
             /\ steps <= range
<1> DEFINE steps == Quotient(range * percent, 100)
           back == Quotient(steps * 100, range)
<1>1. range * percent \in Nat
  OBVIOUS
<1>2. /\ steps \in Nat
      /\ 100 * steps <= range * percent /\ range * percent < 100 * steps + 100
  BY <1>1, QuotientBounds
<1> HIDE DEF steps
<1>3. steps * 100 \in Nat /\ steps * 100 = 100 * steps
  BY <1>2
<1>4. /\ back \in Nat
      /\ range * back <= 100 * steps /\ 100 * steps < range * back + range
  BY <1>3, QuotientBounds
<1> HIDE DEF back
<1>5. back <= percent
  BY <1>2, <1>4
<1>6. (percent - back - 1) * range < 100
  BY <1>2, <1>4
<1>7. percent = 100 => steps = range
  BY <1>2
<1>8. percent = 0 => steps = 0
  BY <1>2
<1>9. range * percent <= range * 100
  OBVIOUS
<1>10. steps <= range
  BY <1>2, <1>9
<1> QED
  BY <1>2, <1>4, <1>5, <1>6, <1>7, <1>8, <1>10 DEF steps, back

LEMMA InvImpliesPercentsHold == IInv /\ ValueInv => PercentsHold
<1> SUFFICES ASSUME IInv, ValueInv, Usable, NEW id \in Ids,
                    Unraced(mixer_get_ctl(id)),
                    NEW i \in DOMAIN Asked(mixer_get_ctl(id)),
                    Asked(mixer_get_ctl(id))[i].by = "percent",
                    Asked(mixer_get_ctl(id))[i].arg \in 0 .. 100,
                    InfoOf(mixer_get_ctl(id)).max - InfoOf(mixer_get_ctl(id)).min > 0,
                    (InfoOf(mixer_get_ctl(id)).max
                       - InfoOf(mixer_get_ctl(id)).min) * 100 <= INT_MAX
             PROVE  LET c == mixer_get_ctl(id)
                        range == InfoOf(c).max - InfoOf(c).min
                        percent == Asked(c)[i].arg
                        back == mixer_ctl_get_percent(c, i)
                    IN  /\ back <= percent
                        /\ (percent - back - 1) * range < 100
                        /\ percent = 0 => Stored(c)[i] = InfoOf(c).min
                        /\ percent = 100 => Stored(c)[i] = InfoOf(c).max
  BY DEF PercentsHold
<1>1. PICK c : c = mixer_get_ctl(id)
  OBVIOUS
<1>2. PICK g, k : Shows(c, g, k)
  BY <1>1, IdFacts
<1> DEFINE info == driver[g][k]
           range == info.max - info.min
           percent == Asked(c)[i].arg
           steps == Quotient(range * percent, 100)
<1>3. /\ info.min \in Int /\ info.max \in Int
      /\ info.min \in Ints(INT_MAX) /\ info.max \in Ints(INT_MAX)
  BY <1>2, ElemFacts DEF Shows
<1>4. /\ InfoOf(c) = info /\ percent \in 0 .. 100
      /\ range > 0 /\ range * 100 <= INT_MAX
      /\ info.type = "int" /\ Stored(c)[i] = percent_to_int(info, percent)
  BY <1>1, <1>2 DEF Honours, Shows
<1> HIDE DEF info
<1>5. range \in Nat \ {0}
  BY <1>3, <1>4
<1>6. range = info.max - info.min
  OBVIOUS
<1> HIDE DEF range, percent
<1>7. /\ steps \in Nat /\ Quotient(steps * 100, range) \in Nat
      /\ Quotient(steps * 100, range) <= percent
      /\ (percent - Quotient(steps * 100, range) - 1) * range < 100
      /\ percent = 0 => steps = 0
      /\ percent = 100 => steps = range
      /\ steps <= range
  BY <1>4, <1>5, PercentBack
<1>8. INT_MAX \in Nat
  BY KindsAssumption DEF INT_MAX
<1>9. range \in Ints(INT_MAX)
  BY <1>4, <1>5, <1>8 DEF Ints
<1>10. range * percent \in Ints(INT_MAX)
  <2>1. range * percent \in Nat /\ range * percent <= range * 100
    BY <1>4, <1>5
  <2> QED
    BY <2>1, <1>4, <1>5, <1>8 DEF Ints
<1>11. IntRange(info) = range
  BY <1>6, <1>9, WrapFits DEF IntRange
<1>12. percent_to_int(info, percent) = info.min + steps
  <2>1. Quotient(AsInt(IntRange(info) * percent), 100) = steps
    BY <1>10, <1>11, WrapFits
  <2> HIDE DEF steps
  <2>2. info.min + steps \in Ints(INT_MAX)
    BY <1>3, <1>5, <1>7, <1>6, <1>8 DEF Ints
  <2>3. ~(percent > 100 \/ percent < 0)
    BY <1>4
  <2> QED
    BY <2>1, <2>2, <2>3, WrapFits DEF percent_to_int
<1> HIDE DEF steps
<1>13. mixer_ctl_get_value(c, i) = info.min + steps
  BY <1>4, <1>12 DEF mixer_ctl_get_value
<1>14. mixer_ctl_get_percent(c, i) = Quotient(steps * 100, range)
  <2>1. (info.min + steps) - info.min = steps
    BY <1>3, <1>7
  <2>2. steps * 100 \in Ints(INT_MAX)
    BY <1>4, <1>5, <1>7, <1>8 DEF Ints
  <2>3. Quotient(steps * 100, range) \in Ints(INT_MAX)
    <3>1. 100 <= INT_MAX
      BY <1>4, <1>5, <1>8
    <3> QED
      BY <1>4, <1>7, <1>8, <3>1 DEF Ints
  <2>4. int_to_percent(info, info.min + steps) = Quotient(steps * 100, range)
    <3>1. AsLong(((info.min + steps) - info.min) * 100) = steps * 100
      BY <2>1, <2>2, WrapFits
    <3>2. IntRange(info) # 0
      BY <1>5, <1>11
    <3> QED
      BY <1>11, <2>3, <3>1, <3>2, WrapFits DEF int_to_percent
  <2> QED
    BY <1>4, <1>13, <2>4 DEF mixer_ctl_get_percent
<1>15. /\ percent = 0 => Stored(c)[i] = info.min
       /\ percent = 100 => Stored(c)[i] = info.max
  BY <1>3, <1>4, <1>7, <1>12, <1>6
<1> QED
  BY <1>1, <1>4, <1>7, <1>14, <1>15, <1>6 DEF percent

(* A percentage is read back less at most one step, and 0 and 100 are the  *)
(* ends, for every range of at most INT_MAX / 100, negative ones included. *)
THEOREM PercentsHoldCorrect == Spec => []PercentsHold
BY InvariantHolds, ValueInvariant, InvImpliesPercentsHold, PTL

------------------------------------------------------------------------------
(* Names                                                                   *)

LEMMA Remainder ==
  ASSUME NEW a \in Nat, NEW b \in Nat, a < b
  PROVE  a % b = a
OBVIOUS

(* Moving a set of places leaves their number.                             *)
LEMMA Shifted ==
  ASSUME NEW S \in SUBSET Int, IsFiniteSet(S), NEW d \in Int
  PROVE  LET T == {i + d : i \in S}
         IN  IsFiniteSet(T) /\ Cardinality(T) = Cardinality(S)
<1> DEFINE T == {i + d : i \in S}
           f == [i \in S |-> i + d]
<1>1. f \in Bijection(S, T)
  <2>1. f \in Injection(S, T)
    BY DEF Injection, IsInjective
  <2>2. f \in Surjection(S, T)
    BY DEF Surjection
  <2> QED
    BY <2>1, <2>2 DEF Bijection
<1>2. ExistsBijection(S, T)
  BY <1>1 DEF ExistsBijection
<1> QED
  BY <1>2, FS_Bijection

(* A hit is found under the number of hits before it.                      *)
LEMMA NthHit ==
  ASSUME NEW hits \in SUBSET Int, IsFiniteSet(hits), NEW n \in hits
  PROVE  LET index == Cardinality({m \in hits : m < n})
         IN  /\ index \in Nat /\ index < Cardinality(hits)
             /\ Nth(hits, index) = n
<1> DEFINE Below(x) == {m \in hits : m < x}
<1>1. ASSUME NEW x \in hits
      PROVE  /\ IsFiniteSet(Below(x)) /\ Cardinality(Below(x)) \in Nat
             /\ Cardinality(Below(x)) < Cardinality(hits)
  <2>1. Below(x) \in SUBSET hits /\ x \notin Below(x)
    OBVIOUS
  <2>2. /\ IsFiniteSet(Below(x)) /\ Cardinality(Below(x)) <= Cardinality(hits)
        /\ Cardinality(Below(x)) # Cardinality(hits)
    BY <2>1, FS_Subset
  <2>3. Cardinality(Below(x)) \in Nat /\ Cardinality(hits) \in Nat
    BY <2>2, FS_CardinalityType
  <2> QED
    BY <2>2, <2>3
<1>2. ASSUME NEW x \in hits, NEW y \in hits, x < y
      PROVE  Cardinality(Below(x)) # Cardinality(Below(y))
  <2>1. \A m \in hits : m < x => m < y
    BY <1>2
  <2>2. Below(x) \in SUBSET Below(y) /\ x \in Below(y)
    BY <1>2, <2>1
  <2>3. x \notin Below(x)
    BY <1>2
  <2> QED
    BY <2>2, <2>3, <1>1, FS_Subset
<1>3. ASSUME NEW x \in hits, Cardinality(Below(x)) = Cardinality(Below(n))
      PROVE  x = n
  <2>1. ~(x < n) /\ ~(n < x)
    BY <1>2, <1>3
  <2> QED
    BY <2>1
<1> QED
  BY <1>1, <1>3 DEF Nth

(* The places of both groups, by id.                                       *)
LEMMA IdPlaces ==
  ASSUME IInv
  PROVE  LET h == Len(ctl["hw"])
             v == Len(ctl["plug"])
         IN  /\ h \in Nat /\ v \in Nat /\ Ids = 0 .. h + v - 1
             /\ mixer_grp_get_count("hw") = h /\ mixer_grp_get_count("plug") = v
             /\ \A id \in Ids :
                  mixer_get_ctl(id) = IF id < h THEN <<"hw", id + 1>>
                                                ELSE <<"plug", id - h + 1>>
<1> DEFINE h == Len(ctl["hw"])
           v == Len(ctl["plug"])
<1>1. h \in Nat /\ v \in Nat /\ total_count = h + v
  BY DEF IInv, Typed, CountsAgree, Groups
<1>2. mixer_grp_get_count("hw") = h /\ mixer_grp_get_count("plug") = v
  BY DEF IInv, CountsAgree, mixer_grp_get_count, Groups
<1> HIDE DEF h, v
<1>3. Ids = 0 .. h + v - 1
  BY <1>1 DEF Ids
<1>4. \A id \in Ids :
        mixer_get_ctl(id) = IF id < h THEN <<"hw", id + 1>>
                                      ELSE <<"plug", id - h + 1>>
  BY <1>1, <1>2, <1>3 DEF mixer_get_ctl, Place
<1> QED
  BY <1>1, <1>2, <1>3, <1>4 DEF h, v

LEMMA DeviceFacts ==
  ASSUME NEW e \in ElemType
  PROVE  e.device \in AnyDevice
<1>1. PICK g \in Groups, kind \in Kinds : e = Elem(g, kind)
  BY DEF ElemType
<1>2. kind \in KindType
  BY KindsAssumption
<1>3. e.device = kind.device \/ e.device = 0
  <2>1. CASE g = "hw"
    BY <1>1, <2>1 DEF Elem
  <2>2. CASE g # "hw"
    <3>1. e = [kind EXCEPT !.device = 0,
                           !.count = IF kind.type = "enum" THEN 1 ELSE kind.count]
      BY <1>1, <2>2 DEF Elem
    <3> QED
      BY <1>2, <3>1 DEF KindType
  <2> QED
    BY <2>1, <2>2
<1> QED
  BY <1>3 DEF AnyDevice

(* The places of a group with a name; a device outside of AnyDevice has no *)
(* control.                                                                *)
Named(g, name) ==
  {n \in 1 .. mixer_grp_get_count(g) : InfoOf(<<g, n>>).name = name}

LEMMA HitsFacts ==
  ASSUME IInv, ValueInv, NEW g \in Groups, NEW name
  PROVE  /\ Hits(g, name, AnyDevice) = Named(g, name)
         /\ Named(g, name) \in SUBSET Int /\ IsFiniteSet(Named(g, name))
         /\ Cardinality(Named(g, name)) \in Nat
         /\ \A devices : /\ Hits(g, name, devices) \in SUBSET Int
                         /\ IsFiniteSet(Hits(g, name, devices))
<1>1. mixer_grp_get_count(g) \in Nat
  BY DEF mixer_grp_get_count, IInv, Typed
<1>2. ASSUME NEW n \in 1 .. mixer_grp_get_count(g)
      PROVE  InfoOf(<<g, n>>).device \in AnyDevice
  <2>1. g \in grps /\ n \in DOMAIN ctl[g]
    BY <1>2 DEF mixer_grp_get_count, IInv, Typed
  <2> QED
    BY <2>1, PlaceFacts, DeviceFacts
<1>3. Hits(g, name, AnyDevice) = Named(g, name)
  BY <1>2 DEF Hits, Named
<1>4. /\ IsFiniteSet(1 .. mixer_grp_get_count(g))
      /\ 1 .. mixer_grp_get_count(g) \in SUBSET Int
  BY <1>1, FS_Interval
<1>5. Named(g, name) \in SUBSET (1 .. mixer_grp_get_count(g))
  BY DEF Named
<1>6. \A devices : Hits(g, name, devices) \in SUBSET (1 .. mixer_grp_get_count(g))
  BY DEF Hits
<1> QED
  BY <1>3, <1>4, <1>5, <1>6, FS_Subset, FS_CardinalityType

(* The controls of a name with lower ids.                                  *)
Namesakes(id) ==
  {i \in Ids : i < id /\ InfoOf(mixer_get_ctl(i)).name = InfoOf(mixer_get_ctl(id)).name}

LEMMA NameFound ==
  ASSUME IInv, ValueInv, NEW id \in Ids
  PROVE  mixer_get_ctl_by_name_and_index(InfoOf(mixer_get_ctl(id)).name,
                                         Cardinality(Namesakes(id)))
           = mixer_get_ctl(id)
<1> DEFINE hc == Len(ctl["hw"])
           vc == Len(ctl["plug"])
           name == InfoOf(mixer_get_ctl(id)).name
           h == Named("hw", name)
           v == Named("plug", name)
           index == Cardinality(Namesakes(id))
<1>1. /\ hc \in Nat /\ vc \in Nat /\ Ids = 0 .. hc + vc - 1
      /\ \A i \in Ids :
           mixer_get_ctl(i) = IF i < hc THEN <<"hw", i + 1>>
                                        ELSE <<"plug", i - hc + 1>>
  BY IdPlaces
<1>2. /\ h = {n \in 1 .. hc : InfoOf(<<"hw", n>>).name = name}
      /\ v = {n \in 1 .. vc : InfoOf(<<"plug", n>>).name = name}
  BY IdPlaces DEF Named
<1>3. /\ h \in SUBSET Int /\ IsFiniteSet(h) /\ Cardinality(h) \in Nat
      /\ v \in SUBSET Int /\ IsFiniteSet(v) /\ Cardinality(v) \in Nat
      /\ Hits("hw", name, AnyDevice) = h /\ Hits("plug", name, AnyDevice) = v
  BY HitsFacts DEF Groups
<1>4. mixer_get_ctl_by_name_and_index(name, index) =
        IF index - Cardinality(h) < 0 THEN <<"hw", Nth(h, index)>>
        ELSE IF index - Cardinality(h) < Cardinality(v)
        THEN <<"plug", Nth(v, index - Cardinality(h))>>
        ELSE NULL
  BY <1>3 DEF mixer_get_ctl_by_name_and_index
<1>5. Namesakes(id) = {i \in Ids : i < id /\ InfoOf(mixer_get_ctl(i)).name = name}
  BY DEF Namesakes
<1> HIDE DEF hc, vc, name, h, v, index
<1>6. CASE id < hc
  <2> DEFINE below == {m \in h : m < id + 1}
  <2>1. mixer_get_ctl(id) = <<"hw", id + 1>> /\ id + 1 \in 1 .. hc
    BY <1>1, <1>6
  <2>2. id + 1 \in h
    BY <1>2, <2>1 DEF name
  <2>3. Namesakes(id) = {m + (-1) : m \in below}
    <3>1. ASSUME NEW i \in Namesakes(id)
          PROVE  \E m \in below : i = m + (-1)
      <4>1. /\ i \in Int /\ i < id /\ i + 1 \in 1 .. hc /\ i < hc
            /\ InfoOf(<<"hw", i + 1>>).name = name
        BY <1>1, <1>5, <1>6, <3>1
      <4>2. i + 1 \in h /\ i + 1 < id + 1 /\ i = (i + 1) + (-1)
        BY <1>1, <1>2, <4>1
      <4> QED
        BY <4>2
    <3>2. ASSUME NEW m \in below
          PROVE  m + (-1) \in Namesakes(id)
      <4>1. m \in 1 .. hc /\ m < id + 1 /\ InfoOf(<<"hw", m>>).name = name
        BY <1>2, <3>2
      <4>2. /\ m + (-1) \in Ids /\ m + (-1) < id /\ m + (-1) < hc
            /\ (m + (-1)) + 1 = m
        BY <1>1, <1>6, <4>1
      <4>3. mixer_get_ctl(m + (-1)) = <<"hw", m>>
        BY <1>1, <4>2
      <4> QED
        BY <1>5, <4>1, <4>2, <4>3
    <3> QED
      BY <3>1, <3>2
  <2>4. below \in SUBSET Int /\ IsFiniteSet(below)
    BY <1>3, FS_Subset
  <2>5. index = Cardinality(below)
    <3>1. Cardinality({m + (-1) : m \in below}) = Cardinality(below)
      <4>1. -1 \in Int
        OBVIOUS
      <4> HIDE DEF below
      <4> QED
        BY <2>4, <4>1, Shifted
    <3> QED
      BY <2>3, <3>1 DEF index
  <2>6. index \in Nat /\ index < Cardinality(h) /\ Nth(h, index) = id + 1
    BY <1>3, <2>2, <2>5, NthHit
  <2>7. index - Cardinality(h) < 0
    BY <1>3, <2>6
  <2> QED
    BY <1>4, <2>1, <2>6, <2>7 DEF name, index
<1>7. CASE ~(id < hc)
  <2> DEFINE n == id - hc + 1
             below == {m \in v : m < n}
             first == {m + (-1) : m \in h}
             second == {m + (hc - 1) : m \in below}
  <2>1. mixer_get_ctl(id) = <<"plug", n>> /\ n \in 1 .. vc
    BY <1>1, <1>7
  <2>2. n \in v
    BY <1>2, <2>1 DEF name
  <2>3. ASSUME NEW i \in Namesakes(id)
        PROVE  i \in first \cup second
    <3>1. /\ i \in Int /\ i \in Ids /\ i < id
          /\ InfoOf(mixer_get_ctl(i)).name = name
      BY <1>1, <1>5, <2>3
    <3>2. CASE i < hc
      <4>1. mixer_get_ctl(i) = <<"hw", i + 1>>
        BY <1>1, <3>1, <3>2
      <4>2. i + 1 \in 1 .. hc
        BY <1>1, <3>1, <3>2
      <4>3. i + 1 \in h /\ i = (i + 1) + (-1)
        BY <1>2, <3>1, <4>1, <4>2
      <4> QED
        BY <4>3
    <3>3. CASE ~(i < hc)
      <4>1. /\ i - hc + 1 \in 1 .. vc /\ i - hc + 1 < n
            /\ InfoOf(<<"plug", i - hc + 1>>).name = name
        BY <1>1, <3>1, <3>3
      <4>2. i - hc + 1 \in below /\ i = (i - hc + 1) + (hc - 1)
        BY <1>1, <1>2, <3>1, <4>1
      <4> QED
        BY <4>2
    <3> QED
      BY <3>2, <3>3
  <2>4. ASSUME NEW m \in h
        PROVE  m + (-1) \in Namesakes(id) /\ m + (-1) < hc
    <3>1. m \in 1 .. hc /\ InfoOf(<<"hw", m>>).name = name
      BY <1>2, <2>4
    <3>2. /\ m + (-1) \in Ids /\ m + (-1) < id /\ m + (-1) < hc
          /\ (m + (-1)) + 1 = m
      BY <1>1, <1>7, <3>1
    <3>3. mixer_get_ctl(m + (-1)) = <<"hw", m>>
      BY <1>1, <3>2
    <3> QED
      BY <1>5, <3>1, <3>2, <3>3
  <2>5. ASSUME NEW m \in below
        PROVE  m + (hc - 1) \in Namesakes(id) /\ ~(m + (hc - 1) < hc)
    <3>1. m \in 1 .. vc /\ m < n /\ InfoOf(<<"plug", m>>).name = name
      BY <1>2, <2>5
    <3>2. /\ m + (hc - 1) \in Ids /\ m + (hc - 1) < id /\ ~(m + (hc - 1) < hc)
          /\ (m + (hc - 1)) - hc + 1 = m
      BY <1>1, <1>7, <3>1
    <3>3. mixer_get_ctl(m + (hc - 1)) = <<"plug", m>>
      BY <1>1, <3>2
    <3> QED
      BY <1>5, <3>1, <3>2, <3>3
  <2>6. Namesakes(id) = first \cup second /\ first \cap second = {}
    BY <2>3, <2>4, <2>5
  <2>7. below \in SUBSET Int /\ IsFiniteSet(below)
    BY <1>3, FS_Subset
  <2>8. /\ IsFiniteSet(first) /\ Cardinality(first) = Cardinality(h)
        /\ IsFiniteSet(second) /\ Cardinality(second) = Cardinality(below)
    <3>1. hc - 1 \in Int /\ -1 \in Int
      BY <1>1
    <3> QED
      BY <1>3, <2>7, <3>1, Shifted
  <2>9. Cardinality(below) \in Nat /\ Cardinality(below) < Cardinality(v)
        /\ Nth(v, Cardinality(below)) = n
    BY <1>3, <2>2, NthHit
  <2>10. index = Cardinality(h) + Cardinality(below)
    <3>1. Cardinality(first \cup second)
            = Cardinality(first) + Cardinality(second) - Cardinality(first \cap second)
      BY <2>8, FS_Union
    <3>2. Cardinality(first \cap second) = 0
      BY <2>6, FS_EmptySet
    <3> QED
      BY <1>3, <2>6, <2>8, <2>9, <3>1, <3>2 DEF index
  <2>11. index - Cardinality(h) = Cardinality(below)
    BY <1>3, <2>9, <2>10
  <2>12. mixer_get_ctl_by_name_and_index(name, index) = <<"plug", n>>
    BY <1>4, <2>9, <2>11
  <2> QED
    BY <2>1, <2>12 DEF name, index
<1> QED
  BY <1>6, <1>7

LEMMA NameEnds ==
  ASSUME IInv, ValueInv, NEW name
  PROVE  mixer_get_ctl_by_name_and_index(name, mixer_get_num_ctls_by_name(name)) = NULL
<1> DEFINE h == Hits("hw", name, AnyDevice)
           v == Hits("plug", name, AnyDevice)
<1>1. Cardinality(h) \in Nat /\ Cardinality(v) \in Nat
  BY HitsFacts DEF Groups
<1>2. mixer_get_num_ctls_by_name(name) = Cardinality(h) + Cardinality(v)
  BY DEF mixer_get_num_ctls_by_name
<1>3. LET last == Cardinality(h) + Cardinality(v)
      IN  ~(last - Cardinality(h) < 0) /\ ~(last - Cardinality(h) < Cardinality(v))
  BY <1>1
<1> QED
  BY <1>2, <1>3 DEF mixer_get_ctl_by_name_and_index

LEMMA FirstHit ==
  ASSUME NEW hits \in SUBSET Int, IsFiniteSet(hits), NEW n \in hits,
         \A m \in hits : ~(m < n)
  PROVE  Nth(hits, 0) = n
<1>1. {m \in hits : m < n} = {}
  OBVIOUS
<1> QED
  BY <1>1, NthHit, FS_EmptySet

LEMMA DeviceFound ==
  ASSUME IInv, ValueInv, NEW id \in Ids,
         \A i \in Namesakes(id) : InfoOf(mixer_get_ctl(i)).device
                                    # InfoOf(mixer_get_ctl(id)).device
  PROVE  mixer_get_ctl_by_name_and_device(InfoOf(mixer_get_ctl(id)).name,
                                          InfoOf(mixer_get_ctl(id)).device)
           = mixer_get_ctl(id)
<1> DEFINE hc == Len(ctl["hw"])
           vc == Len(ctl["plug"])
           name == InfoOf(mixer_get_ctl(id)).name
           device == InfoOf(mixer_get_ctl(id)).device
           Hit(c) == InfoOf(c).name = name /\ InfoOf(c).device = device
           h == Hits("hw", name, {device})
           v == Hits("plug", name, {device})
<1>1. /\ hc \in Nat /\ vc \in Nat /\ Ids = 0 .. hc + vc - 1
      /\ \A i \in Ids :
           mixer_get_ctl(i) = IF i < hc THEN <<"hw", i + 1>>
                                        ELSE <<"plug", i - hc + 1>>
  BY IdPlaces
<1>2. /\ h = {n \in 1 .. hc : Hit(<<"hw", n>>)}
      /\ v = {n \in 1 .. vc : Hit(<<"plug", n>>)}
  BY IdPlaces DEF Hits
<1>3. /\ h \in SUBSET Int /\ IsFiniteSet(h)
      /\ v \in SUBSET Int /\ IsFiniteSet(v)
  BY HitsFacts DEF Groups
<1>4. mixer_get_ctl_by_name_and_device(name, device) =
        IF h # {} THEN <<"hw", Nth(h, 0)>>
        ELSE IF v # {} THEN <<"plug", Nth(v, 0)>>
        ELSE NULL
  BY DEF mixer_get_ctl_by_name_and_device
<1>5. \A i \in Ids : i < id => ~Hit(mixer_get_ctl(i))
  BY DEF Namesakes
<1>6. Hit(mixer_get_ctl(id))
  OBVIOUS
<1>7. SUFFICES mixer_get_ctl_by_name_and_device(name, device) = mixer_get_ctl(id)
  OBVIOUS
<1> HIDE DEF hc, vc, name, device, Hit, h, v
<1>8. CASE id < hc
  <2>1. mixer_get_ctl(id) = <<"hw", id + 1>> /\ id + 1 \in 1 .. hc
    BY <1>1, <1>8
  <2>2. id + 1 \in h
    BY <1>2, <1>6, <2>1
  <2>3. ASSUME NEW m \in h, m < id + 1
        PROVE  FALSE
    <3>1. m \in 1 .. hc /\ Hit(<<"hw", m>>)
      BY <1>2
    <3>2. m - 1 \in Ids /\ m - 1 < id /\ m - 1 < hc /\ (m - 1) + 1 = m
      BY <1>1, <1>8, <2>3, <3>1
    <3>3. mixer_get_ctl(m - 1) = <<"hw", m>>
      BY <1>1, <3>2
    <3> QED
      BY <1>5, <3>1, <3>2, <3>3
  <2>4. Nth(h, 0) = id + 1
    BY <1>3, <2>2, <2>3, FirstHit
  <2> QED
    BY <1>4, <2>1, <2>2, <2>4
<1>9. CASE ~(id < hc)
  <2> DEFINE n == id - hc + 1
  <2>1. mixer_get_ctl(id) = <<"plug", n>> /\ n \in 1 .. vc
    BY <1>1, <1>9
  <2>2. n \in v
    BY <1>2, <1>6, <2>1
  <2>3. h = {}
    <3> SUFFICES ASSUME NEW m \in h PROVE FALSE
      OBVIOUS
    <3>1. m \in 1 .. hc /\ Hit(<<"hw", m>>)
      BY <1>2
    <3>2. m - 1 \in Ids /\ m - 1 < id /\ m - 1 < hc /\ (m - 1) + 1 = m
      BY <1>1, <1>9, <3>1
    <3>3. mixer_get_ctl(m - 1) = <<"hw", m>>
      BY <1>1, <3>2
    <3> QED
      BY <1>5, <3>1, <3>2, <3>3
  <2>4. ASSUME NEW m \in v, m < n
        PROVE  FALSE
    <3>1. m \in 1 .. vc /\ Hit(<<"plug", m>>)
      BY <1>2
    <3>2. /\ m + hc - 1 \in Ids /\ m + hc - 1 < id /\ ~(m + hc - 1 < hc)
          /\ (m + hc - 1) - hc + 1 = m
      BY <1>1, <1>9, <2>4, <3>1
    <3>3. mixer_get_ctl(m + hc - 1) = <<"plug", m>>
      BY <1>1, <3>2
    <3> QED
      BY <1>5, <3>1, <3>2, <3>3
  <2>5. Nth(v, 0) = n
    BY <1>3, <2>2, <2>4, FirstHit
  <2> QED
    BY <1>4, <2>1, <2>2, <2>3, <2>5
<1> QED
  BY <1>8, <1>9

(* The kernel has no more controls than an unsigned int counts.            *)
Bounded == Len(driver["hw"]) <= MaxControls

LEMMA BoundedInductive == IInv /\ Bounded /\ [Next]_vars => Bounded'
<1> SUFFICES ASSUME IInv, Bounded, [Next]_vars PROVE Bounded'
  OBVIOUS
<1>1. CASE UNCHANGED driver
  BY <1>1 DEF Bounded
<1>2. ASSUME NEW g \in Groups, NEW kind \in Kinds, AddControl(g, kind)
      PROVE  Bounded'
  <2>1. /\ driver["hw"] \in Seq(ElemType) /\ driver["plug"] \in Seq(ElemType)
        /\ driver \in [Groups -> Seq(ElemType)] /\ Elem(g, kind) \in ElemType
    BY DEF IInv, Typed, Groups, ElemType
  <2>2. /\ Len(driver["hw"]) + Len(driver["plug"]) < MaxControls
        /\ driver' = [driver EXCEPT ![g] = Append(@, Elem(g, kind))]
    BY <1>2 DEF AddControl, DriverAdds
  <2>3. Len(Append(driver["hw"], Elem(g, kind))) = Len(driver["hw"]) + 1
    BY <2>1, AppendProperties
  <2>4. Len(driver["hw"]) \in Nat /\ Len(driver["plug"]) \in Nat /\ MaxControls \in Int
    BY <2>1, KindsAssumption
  <2>5. CASE g = "hw"
    <3>1. driver'["hw"] = Append(driver["hw"], Elem(g, kind))
      BY <2>1, <2>2, <2>5
    <3>2. Len(driver["hw"]) + 1 <= MaxControls
      <4>1. \A a, b \in Nat : \A m \in Int : a + b < m => a + 1 <= m
        OBVIOUS
      <4> QED
        BY ONLY <2>2, <2>4, <4>1
    <3> QED
      BY <2>3, <3>1, <3>2 DEF Bounded
  <2>6. CASE g # "hw"
    BY <2>1, <2>2, <2>6 DEF Bounded, Groups
  <2> QED
    BY <2>5, <2>6
<1>3. CASE HandleStep
  BY <1>1, <1>3 DEF HandleStep, mixer_open, mixer_grp_open, SampleOpenFails,
     CardInfo, OpenControls, ErrCardInfo, OpenEnd, UseDangling
<1>4. CASE mixer_add_new_ctls \/ mixer_close
  BY <1>1, <1>4 DEF mixer_add_new_ctls, mixer_close
<1>5. CASE \E client \in Clients :
             \/ mixer_ctl_set_value(client) \/ mixer_ctl_set_percent(client)
             \/ SetValueWrite(client)
             \/ mixer_ctl_set_array(client)
             \/ mixer_ctl_set_enum_by_string(client)
  BY <1>1, <1>5 DEF mixer_ctl_set_value, mixer_ctl_set_percent, SetValueRead,
     SetValueWrite, mixer_ctl_set_array, mixer_ctl_set_enum_by_string, groupVars
<1>6. CASE UNCHANGED vars
  BY <1>1, <1>6 DEF vars, groupVars
<1>7. CASE \E client \in Clients : PercentTraps(client)
  BY <1>1, <1>7 DEF PercentTraps
<1> QED
  BY <1>2, <1>3, <1>4, <1>5, <1>6, <1>7 DEF Next

LEMMA IdLeadsBack ==
  ASSUME IInv, Bounded, NEW id \in Ids, mixer_get_ctl(id)[1] = "hw"
  PROVE  mixer_get_ctl(mixer_ctl_get_id(mixer_get_ctl(id))) = mixer_get_ctl(id)
<1> DEFINE hc == Len(ctl["hw"])
           vc == Len(ctl["plug"])
<1>1. /\ hc \in Nat /\ vc \in Nat /\ Ids = 0 .. hc + vc - 1
      /\ \A i \in Ids :
           mixer_get_ctl(i) = IF i < hc THEN <<"hw", i + 1>>
                                        ELSE <<"plug", i - hc + 1>>
  BY IdPlaces
<1> HIDE DEF hc, vc
<1>2. id \in Nat /\ id < hc /\ mixer_get_ctl(id) = <<"hw", id + 1>>
  <2>1. id \in Nat
    BY <1>1
  <2>2. ~(id < hc) => mixer_get_ctl(id)[1] = "plug"
    BY <1>1
  <2>3. id < hc
    BY <2>2
  <2> QED
    BY <1>1, <2>1, <2>3
<1>3. ctl["hw"][id + 1] = id + 1
  <2>1. id + 1 \in 1 .. hc /\ "hw" \in Groups
    BY <1>1, <1>2 DEF Groups
  <2>2. ctl["hw"][id + 1] = NumidAt("hw", id + 1)
    BY <2>1 DEF IInv, Listed, hc
  <2> QED
    BY <1>2, <2>2 DEF NumidAt, FirstNumid
<1>4. id < UINT_MAX + 1 /\ UINT_MAX + 1 \in Nat
  <2>1. Len(driver["hw"]) \in Nat /\ hc <= Len(driver["hw"])
    BY DEF IInv, Typed, CountsAgree, Groups, hc
  <2> QED
    BY <1>1, <1>2, <2>1, KindsAssumption DEF Bounded
<1>5. mixer_ctl_get_id(<<"hw", id + 1>>) = ((id + 1) - 1) % (UINT_MAX + 1)
  BY <1>3 DEF mixer_ctl_get_id, NumidOf
<1>6. (id + 1) - 1 = id
  BY <1>2
<1>7. mixer_ctl_get_id(<<"hw", id + 1>>) = id
  BY <1>2, <1>4, <1>5, <1>6, Remainder
<1> QED
  BY <1>2, <1>7

(* Both groups are searched in the order of the ids, an index goes on      *)
(* counting in the second one, and every control is found by its name and  *)
(* index; the first of its name on its device also by those two.           *)
LEMMA InvImpliesNamesAgree == IInv /\ ValueInv /\ Bounded => NamesAgree
<1> SUFFICES ASSUME IInv, ValueInv, Bounded PROVE NamesAgree
  OBVIOUS
<1> DEFINE info == [id \in Ids |-> InfoOf(mixer_get_ctl(id))]
           Before(id) == {i \in Ids : i < id /\ info[i].name = info[id].name}
<1>1. ASSUME NEW id \in Ids
      PROVE  /\ info[id] = InfoOf(mixer_get_ctl(id))
             /\ Before(id) = Namesakes(id)
  BY DEF Namesakes
<1> SUFFICES ASSUME NEW id \in Ids
             PROVE
               LET c == mixer_get_ctl(id)
                   name == info[id].name
                   last == mixer_get_num_ctls_by_name(name)
               IN  /\ mixer_get_ctl_by_name_and_index(name, Cardinality(Before(id))) = c
                   /\ mixer_get_ctl_by_name_and_index(name, last) = NULL
                   /\ Before(id) = {} => mixer_get_ctl_by_name(name) = c
                   /\ c[1] = "hw" => mixer_get_ctl(mixer_ctl_get_id(c)) = c
                   /\ \/ \E i \in Before(id) : info[i].device = info[id].device
                      \/ mixer_get_ctl_by_name_and_device(name, info[id].device) = c
  BY DEF NamesAgree
<1>2. \A i \in Before(id) : info[i] = InfoOf(mixer_get_ctl(i))
  BY <1>1
<1>3. /\ info[id] = InfoOf(mixer_get_ctl(id))
      /\ Before(id) = Namesakes(id)
  BY <1>1
<1> HIDE DEF info, Before
<1>4. mixer_get_ctl_by_name_and_index(info[id].name, Cardinality(Before(id)))
        = mixer_get_ctl(id)
  BY <1>3, NameFound
<1>5. mixer_get_ctl_by_name_and_index(info[id].name,
                                      mixer_get_num_ctls_by_name(info[id].name)) = NULL
  BY NameEnds
<1>6. Before(id) = {} => mixer_get_ctl_by_name(info[id].name) = mixer_get_ctl(id)
  BY <1>4, FS_EmptySet DEF mixer_get_ctl_by_name
<1>7. mixer_get_ctl(id)[1] = "hw" =>
        mixer_get_ctl(mixer_ctl_get_id(mixer_get_ctl(id))) = mixer_get_ctl(id)
  BY IdLeadsBack
<1>8. \/ \E i \in Before(id) : info[i].device = info[id].device
      \/ mixer_get_ctl_by_name_and_device(info[id].name, info[id].device)
           = mixer_get_ctl(id)
  BY <1>2, <1>3, DeviceFound
<1> QED
  BY <1>4, <1>5, <1>6, <1>7, <1>8

(* Names lead to the same controls as ids, for any number of controls of   *)
(* any names in both groups.                                               *)
THEOREM NamesAgreeCorrect == Spec => []NamesAgree
<1>1. Init => Bounded
  BY KindsAssumption DEF Init, GroupsInit, Bounded, Groups
<1> QED
  BY <1>1, BoundedInductive, InvImpliesNamesAgree, InvariantHolds, ValueInvariant,
     PTL DEF Spec
==============================================================================
