---------------------------- MODULE MixerValues -----------------------------
(***************************************************************************)
(* Reading and changing the values of controls: mixer_ctl_set_value and    *)
(* its callers in src/src/mixer.c, mixer_plug_elem_read and _write, by     *)
(* several clients at once.  The values live in the backends; setting one  *)
(* of them is an ELEM_READ of all, a change, and an ELEM_WRITE of all.     *)
(***************************************************************************)
EXTENDS MixerGroups

CONSTANTS
  Clients,   \* threads or processes that use the controls
  Percents,  \* what they pass to mixer_ctl_set_percent
  MaxWork,   \* bound on the calls that change values plus the controls
  LONG_MAX   \* a control's limits are a long each

ASSUME ClientsAssumption == Percents \subseteq Int /\ MaxWork \in Nat

VARIABLES
  value,  \* what the backends store: for each control its values
  call,   \* a client between its ELEM_READ and its ELEM_WRITE
  asked,  \* history: for each value the last request that was accepted
  raced,  \* history: controls written between a READ and its WRITE
  calls   \* the number of calls so far

valueVars == <<value, call, asked, raced, calls>>
vars == <<groupVars, valueVars>>

EINVAL == 22

(* An int has the width of an unsigned int, and a long at least that.  The *)
(* values and limits of controls go in and out of the library as ints      *)
(* (mixer_ctl_set_value, mixer_ctl_get_range_min, ...).                    *)
INT_MAX == UINT_MAX \div 2
Ints(max) == -max - 1 .. max

ASSUME WidthAssumption ==
  /\ LONG_MAX \in Nat /\ EINVAL <= INT_MAX /\ INT_MAX <= LONG_MAX
  /\ \A k \in Kinds : k.min \in Ints(INT_MAX) /\ k.max \in Ints(INT_MAX)

NoCall == [c |-> NULL, id |-> 0, by |-> "nothing", arg |-> 0, ev |-> <<>>]
Nothing == [by |-> "nothing", arg |-> 0]

Fill_Items(kind, v) == [i \in 1 .. kind.max |-> v]
Fill(kind, v) == [i \in 1 .. kind.count |-> v]

Init ==
  /\ GroupsInit
  /\ value = [g \in Groups |-> <<>>]
  /\ call = [c \in Clients |-> NoCall]
  /\ asked = [g \in Groups |-> <<>>]
  /\ raced = {} /\ calls = 0

------------------------------------------------------------------------------
(* Percentages, in C's integers                                            *)

Size(n) == IF n < 0 THEN -n ELSE n

(* Division truncates.                                                     *)
Quotient(a, b) ==
  LET q == Size(a) \div Size(b) IN IF a < 0 <=> b < 0 THEN q ELSE -q

(* What a conversion to a narrower type, or an overflow that is not        *)
(* trapped, leaves of a number.                                            *)
Wrap(x, max) ==
  IF x \in Ints(max) THEN x ELSE ((x + max + 1) % (2 * (max + 1))) - max - 1
AsInt(x) == Wrap(x, INT_MAX)
AsLong(x) == Wrap(x, LONG_MAX)

(* int range                                                               *)
IntRange(info) == AsInt(info.max - info.min)

percent_to_int_DivideFirst(info, percent) ==
  IF percent > 100 \/ percent < 0 THEN -EINVAL
  ELSE AsInt(info.min + Quotient(IntRange(info), 100) * percent)

(* range * percent is a product of two ints.                               *)
percent_to_int(info, percent) ==
  IF percent > 100 \/ percent < 0 THEN -EINVAL
  ELSE AsInt(info.min + Quotient(AsInt(IntRange(info) * percent), 100))

Overflows(info, percent) ==
  percent \in 0 .. 100 /\ IntRange(info) * percent \notin Ints(INT_MAX)

(* (value - min) * 100 is a long, as min is.                               *)
int_to_percent(info, v) ==
  IF IntRange(info) = 0 THEN 0
  ELSE AsInt(Quotient(AsLong((v - info.min) * 100), IntRange(info)))

------------------------------------------------------------------------------
(* The clients                                                             *)

Idle == \A c \in Clients : call[c] = NoCall

Stored(c) == value[c[1]][Addressed(c[1], NumidOf(c))]

(* The converted argument: a BOOLEAN is 0 or 1.                            *)
Converted(info, v) == IF info.type = "bool" /\ v # 0 THEN 1 ELSE v

ReadAll_Zeroed(c) == Fill(InfoOf(c), 0)
ReadAll(c) == Stored(c)

(* mixer_ctl_set_value up to its ELEM_WRITE; by and arg are what the       *)
(* client asked for.                                                       *)
SetValueRead(client, c, id, v, by, arg) ==
  /\ call' = [call EXCEPT ![client] =
                [c |-> c, id |-> id, by |-> by, arg |-> arg,
                 ev |-> [ReadAll(c) EXCEPT ![id] = Converted(InfoOf(c), v)]]]
  /\ UNCHANGED <<groupVars, value, asked, raced>>

Room == calls + Len(driver["hw"]) + Len(driver["plug"]) < MaxWork

Begin(client) ==
  /\ pc = "ready" /\ Dangling = {} /\ call[client] = NoCall
  /\ Room
  /\ calls' = calls + 1

mixer_ctl_set_value(client) ==
  /\ Begin(client)
  /\ \E g \in grps : \E n \in DOMAIN ctl[g] :
       LET info == InfoOf(<<g, n>>)
       IN  \E id \in 1 .. info.count :
             SetValueRead(client, <<g, n>>, id, info.max, "value", info.max)

mixer_ctl_set_percent(client) ==
  /\ Begin(client)
  /\ \E g \in grps : \E n \in DOMAIN ctl[g] : \E percent \in Percents :
       LET info == InfoOf(<<g, n>>)
       IN  /\ info.type = "int"
           /\ \E id \in 1 .. info.count :
                SetValueRead(client, <<g, n>>, id,
                             percent_to_int(info, percent), "percent", percent)

(* A product that overflows is undefined: it wraps, or it ends the program *)
(* in the builds that trap it (integer_overflow in Android.bp:56).         *)
PercentTraps(client) ==
  /\ Begin(client)
  /\ \E g \in grps : \E n \in DOMAIN ctl[g] : \E percent \in Percents :
       InfoOf(<<g, n>>).type = "int" /\ Overflows(InfoOf(<<g, n>>), percent)
  /\ pc' = "undefined"
  /\ UNCHANGED <<group, opened, mixer, driver, held, late, lost>>
  /\ UNCHANGED <<value, call, asked, raced>>

(* ELEM_WRITE: mixer_plug_elem_write, or the kernel.  The driver refuses   *)
(* values outside of the control's range.                                  *)
Accepts(info, ev) == \A i \in DOMAIN ev : ev[i] \in info.min .. info.max

(* A write overtakes the calls that have read the same control.            *)
Overtakes(client, g, k) ==
  \E other \in Clients \ {client} :
    /\ call[other] # NoCall
    /\ call[other].c[1] = g
    /\ Addressed(g, NumidOf(call[other].c)) = k

ElemWrite(client, c, ev, requests) ==
  LET g == c[1]
      k == Addressed(g, NumidOf(c))
  IN  IF Accepts(InfoOf(c), ev)
      THEN /\ value' = [value EXCEPT ![g][k] = ev]
           /\ asked' = [asked EXCEPT ![g][k] = requests]
           /\ raced' = IF Overtakes(client, g, k) THEN raced \cup {<<g, k>>}
                                                  ELSE raced
      ELSE UNCHANGED <<value, asked, raced>>

SetValueWrite(client) ==
  /\ call[client] # NoCall
  /\ LET this == call[client]
         c == this.c
     IN  ElemWrite(client, c, this.ev,
           [asked[c[1]][Addressed(c[1], NumidOf(c))] EXCEPT
              ![this.id] = [by |-> this.by, arg |-> this.arg]])
  /\ call' = [call EXCEPT ![client] = NoCall]
  /\ UNCHANGED <<groupVars, calls>>

(* mixer_ctl_set_array with the least value, for all types but the         *)
(* enumerated one: the values after the first count become 0.              *)
mixer_ctl_set_array(client) ==
  /\ Begin(client)
  /\ \E g \in grps : \E n \in DOMAIN ctl[g] :
       LET info == InfoOf(<<g, n>>)
       IN  /\ info.type # "enum"
           /\ \E count \in 1 .. info.count :
                ElemWrite(client, <<g, n>>,
                  [i \in 1 .. info.count |-> IF i <= count THEN info.min ELSE 0],
                  [i \in 1 .. info.count |->
                     IF i <= count THEN [by |-> "value", arg |-> info.min]
                                   ELSE Nothing])
  /\ UNCHANGED <<groupVars, call>>

(* mixer_ctl_set_enum_by_string writes the first value and 0 in the rest.  *)
mixer_ctl_set_enum_by_string(client) ==
  /\ Begin(client)
  /\ \E g \in grps : \E n \in DOMAIN ctl[g] :
       LET info == InfoOf(<<g, n>>)
       IN  /\ info.type = "enum"
           /\ \E item \in 0 .. info.max :
                ElemWrite(client, <<g, n>>,
                  [Fill(info, 0) EXCEPT ![1] = item],
                  [Fill(info, Nothing) EXCEPT
                     ![1] = [by |-> "value", arg |-> item]])
  /\ UNCHANGED <<groupVars, call>>

(* mixer_ctl_get_value and mixer_ctl_get_percent                           *)
mixer_ctl_get_value(c, id) ==
  IF InfoOf(c).type = "bool" /\ Stored(c)[id] # 0 THEN 1 ELSE Stored(c)[id]

(* mixer_ctl_get_array knows no enumerated controls.                       *)
mixer_ctl_get_array(c, count) == SubSeq(Stored(c), 1, count)

mixer_ctl_get_percent(c, id) ==
  int_to_percent(InfoOf(c), mixer_ctl_get_value(c, id))

------------------------------------------------------------------------------
(* A backend gains a control, whose values are there from the start.       *)
AddControl(g, kind) ==
  /\ Room
  /\ DriverAdds(g, kind)
  /\ value' = [value EXCEPT ![g] = Append(@, Fill(Elem(g, kind), kind.min))]
  /\ asked' = [asked EXCEPT ![g] = Append(@, Fill(Elem(g, kind), Nothing))]
  /\ UNCHANGED <<call, raced, calls>>

(* A client uses no control during the calls that move or free them.       *)
Next ==
  \/ HandleStep /\ UNCHANGED valueVars
  \/ mixer_add_new_ctls /\ Idle /\ UNCHANGED valueVars
  \/ mixer_close /\ Idle /\ UNCHANGED valueVars
  \/ \E g \in Groups, kind \in Kinds : AddControl(g, kind)
  \/ \E client \in Clients :
       \/ mixer_ctl_set_value(client) \/ mixer_ctl_set_percent(client)
       \/ SetValueWrite(client)
       \/ mixer_ctl_set_array(client) \/ mixer_ctl_set_enum_by_string(client)
  \/ \E client \in Clients : PercentTraps(client)

Spec == Init /\ [][Next]_vars
==============================================================================
