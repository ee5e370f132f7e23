---------------------------- MODULE MixerGroups -----------------------------
(***************************************************************************)
(* A mixer handle and its two groups of controls, the kernel's and the     *)
(* plugin's: mixer_open, mixer_close, mixer_add_new_ctls and the lookups   *)
(* (src/src/mixer.c) over both backends (src/src/mixer_hw.c and            *)
(* src/src/mixer_plugin.c).  Every call of a backend, every allocation and *)
(* every dlopen may fail, and both backends may gain controls at any time. *)
(*                                                                         *)
(* A control of a backend is a record from Kinds; a control of the handle  *)
(* is the numid by which it addresses one of the backend's.                *)
(***************************************************************************)
EXTENDS Integers, Sequences, FiniteSets

CONSTANTS
  Kinds,        \* what a control may be: its snd_ctl_elem_info
  MaxControls,  \* bound on the controls of both backends
  UINT_MAX

KindType ==
  [name : STRING, device : Nat, type : {"int", "bool", "enum"},
   count : Nat \ {0}, min : Int, max : Int]

(* A boolean control is 0 or 1, as mixer_ctl_set_value writes it; a count  *)
(* of controls is an unsigned int.                                         *)
ASSUME KindsAssumption ==
  /\ \A k \in Kinds : /\ k \in KindType /\ k.min <= k.max
                      /\ k.type = "bool" => k.min = 0 /\ k.max = 1
  /\ UINT_MAX \in Nat \ {0} /\ MaxControls \in 0 .. UINT_MAX

Groups == {"hw", "plug"}

VARIABLES
  pc,           \* the next line of the call under way, or how it ended
  group,        \* the group it is at
  opened,       \* h_status and v_status, as the groups that did not fail
  grps,         \* mixer->h_grp and v_grp, as the pointers that are set
  fd,           \* mixer->fd
  total_count,  \* mixer->total_count
  is_card_info_retrieved,
  ctl,          \* grp->ctl up to grp->count: the controls' numids
  driver,       \* the controls the backends have
  held,         \* resources acquired and not released
  late,         \* history: groups that got controls by mixer_add_new_ctls
  lost          \* history: failures after which something is never released

mixer == <<grps, fd, total_count, is_card_info_retrieved, ctl>>
groupVars == <<pc, group, opened, mixer, driver, held, late, lost>>

Res(g, names) == {<<g, n>> : n \in names}
Handle == {<<"mixer", "handle">>}
Backend ==
  [hw |-> Res("hw", {"data", "fd"}),
   plug |-> Res("plug", {"data", "node", "dl", "plugin", "eventfd"})]

GroupsInit ==
  /\ pc = "none" /\ group = "hw" /\ opened = {}
  /\ grps = {} /\ fd = 0 /\ total_count = 0
  /\ is_card_info_retrieved = FALSE
  /\ ctl = [g \in Groups |-> <<>>]
  /\ driver = [g \in Groups |-> <<>>]
  /\ held = {} /\ late = {} /\ lost = {}

(* Pointers to a group that mixer_grp_open freed.                          *)
Dangling == {g \in grps : <<g, "grp">> \notin held}

------------------------------------------------------------------------------
(* The controls of a backend                                               *)

(* The kernel counts its controls from 1, mixer_plug_get_elem_id from 0.   *)
FirstNumid(g) == IF g = "hw" THEN 1 ELSE 0
Addressed(g, numid) == numid - FirstNumid(g) + 1
Info(g, numid) == driver[g][Addressed(g, numid)]

ElemList_NoOffset(g, offset, space) ==
  [i \in 1 .. space |-> FirstNumid(g) + i - 1]

(* SNDRV_CTL_IOCTL_ELEM_LIST: the kernel starts at the offset,             *)
(* mixer_plug_get_elem_list always at its first control.                   *)
ElemList(g, offset, space) ==
  [i \in 1 .. space |->
     IF g = "hw" THEN FirstNumid(g) + offset + i - 1
                 ELSE FirstNumid(g) + i - 1]

(* What a backend says of a control: mixer_plug_get_elem_info leaves the   *)
(* device 0 and gives an enumerated control one value.                     *)
Elem(g, kind) ==
  IF g = "hw" THEN kind
  ELSE [kind EXCEPT !.device = 0,
                    !.count = IF kind.type = "enum" THEN 1 ELSE kind.count]

(* The numids before the first of which the backend cannot tell the type.  *)
Supported(g, numids) ==
  {n \in 0 .. Len(numids) :
     \A i \in 1 .. n : g = "hw" \/ Info(g, numids[i]).type # "bool"}

(* What add_controls may do: nothing, or to get any number of the new      *)
(* controls before an ELEM_INFO fails.  It allocates before it asks.       *)
add_controls(g) ==
  LET new == ElemList(g, Len(ctl[g]), Len(driver[g]) - Len(ctl[g]))
  IN  {[ids |-> <<>>, ret |-> -1, array |-> {}]}
        \cup {[ids |-> SubSeq(new, 1, n),
               ret |-> IF n = Len(new) THEN 0 ELSE -1,
               array |-> IF new = <<>> THEN {} ELSE Res(g, {"ctl"})] :
                n \in Supported(g, new)}

Counted_OnSuccess(added) == IF added.ret = 0 THEN Len(added.ids) ELSE 0
(* What it adds to total_count, also when it fails.                        *)
Counted(added) == Len(added.ids)

(* A backend gains a control (external): before its group is opened, or    *)
(* while the handle is open.                                               *)
DriverAdds(g, kind) ==
  /\ pc \in {"grp_open", "ready"}
  /\ Len(driver["hw"]) + Len(driver["plug"]) < MaxControls
  /\ driver' = [driver EXCEPT ![g] = Append(@, Elem(g, kind))]
  /\ UNCHANGED <<pc, group, opened, mixer, held, late, lost>>

------------------------------------------------------------------------------
(* mixer_open                                                              *)

mixer_open ==
  /\ pc = "none"
  /\ \/ pc' = "grp_open" /\ held' = held \cup Handle
     \/ pc' = "null" /\ UNCHANGED held
  /\ UNCHANGED <<group, opened, mixer, driver, late, lost>>

GroupDone ==
  /\ pc' = IF group = "hw" THEN "grp_open" ELSE "open_end"
  /\ group' = "plug"

mixer_grp_open_PointerFirst ==
  /\ pc = "grp_open"
  /\ grps' = grps \cup {group}
  /\ \/ GroupDone /\ fd' = -1 /\ UNCHANGED held
     \/ /\ pc' = "card_info"
        /\ held' = held \cup Backend[group] \cup {<<group, "grp">>}
        /\ fd' = 3
        /\ UNCHANGED group
  /\ UNCHANGED <<opened, total_count, is_card_info_retrieved, ctl, driver,
                 late, lost>>

(* mixer_grp_open up to the backend's open.  mixer_hw_open keeps the file  *)
(* descriptor of a device for which it finds no memory.                    *)
mixer_grp_open ==
  /\ pc = "grp_open"
  /\ \/ /\ GroupDone  \* calloc
        /\ UNCHANGED <<grps, fd, held, lost>>
     \/ /\ GroupDone  \* mixer_hw_open, mixer_plugin_open
        /\ fd' = IF group = "hw" THEN -1 ELSE fd
        /\ \/ UNCHANGED <<held, lost>>
           \/ /\ group = "hw"
              /\ held' = held \cup {<<"hw", "fd">>}
              /\ lost' = lost \cup {"hw_data"}
        /\ UNCHANGED grps
     \/ /\ pc' = "card_info"
        /\ held' = held \cup Backend[group] \cup {<<group, "grp">>}
        /\ fd' = IF group = "hw" THEN 3 ELSE fd
        /\ grps' = grps \cup {group}
        /\ UNCHANGED <<group, lost>>
  /\ UNCHANGED <<opened, total_count, is_card_info_retrieved, ctl, driver,
                 late>>

(* sample_mixer_open without memory for its controls goes to               *)
(* sample_mixer_free_ctls, which looks for their names in a null array.    *)
SampleOpenFails ==
  /\ pc = "grp_open" /\ group = "plug"
  /\ pc' = "undefined"
  /\ UNCHANGED <<group, opened, mixer, driver, held, late, lost>>

(* mixer_plug_get_card_info never fails.                                   *)
CardInfo ==
  /\ pc = "card_info"
  /\ \/ pc' = "add" /\ is_card_info_retrieved' = TRUE
     \/ /\ group = "hw" /\ ~is_card_info_retrieved
        /\ pc' = "err_card_info"
        /\ UNCHANGED is_card_info_retrieved
  /\ UNCHANGED <<group, opened, grps, fd, total_count, ctl, driver, held,
                 late, lost>>

OpenControls ==
  /\ pc = "add"
  /\ \E added \in add_controls(group) :
       /\ ctl' = [ctl EXCEPT ![group] = @ \o added.ids]
       /\ total_count' = total_count + Counted(added)
       /\ held' = held \cup added.array
       /\ IF added.ret = 0
          THEN opened' = opened \cup {group} /\ GroupDone
          ELSE pc' = "err_card_info" /\ UNCHANGED <<opened, group>>
  /\ UNCHANGED <<grps, fd, is_card_info_retrieved, driver, late, lost>>

Closed_NoDlclose(g) == Backend[g] \ Res("plug", {"node", "eventfd", "dl"})
(* ops->close: mixer_plug_close keeps the card's node and the eventfd.     *)
Closed(g) == Backend[g] \ Res("plug", {"node", "eventfd"})

(* err_card_info: the backend is closed and the group freed, but not its   *)
(* controls, and the handle still points to it.                            *)
ErrCardInfo ==
  /\ pc = "err_card_info"
  /\ held' = held \ (Closed(group) \cup {<<group, "grp">>})
  /\ lost' = lost \cup {group}
  /\ GroupDone
  /\ UNCHANGED <<opened, mixer, driver, late>>

OpenEnd ==
  /\ pc = "open_end"
  /\ pc' = IF opened = {} THEN "fail" ELSE "ready"
  /\ UNCHANGED <<group, opened, mixer, driver, held, late, lost>>

------------------------------------------------------------------------------
(* The open handle                                                         *)

NewControls(g) ==
  IF g \in grps THEN add_controls(g)
                ELSE {[ids |-> <<>>, ret |-> 0, array |-> {}]}

(* mixer_add_new_ctls tries both groups, whatever the first one did.       *)
mixer_add_new_ctls ==
  /\ pc = "ready" /\ Dangling = {}
  /\ \E h \in NewControls("hw"), v \in NewControls("plug") :
       LET added == [hw |-> h, plug |-> v]
       IN  /\ ctl' = [g \in Groups |-> ctl[g] \o added[g].ids]
           /\ total_count' = total_count + Counted(h) + Counted(v)
           /\ held' = held \cup h.array \cup v.array
           /\ late' = late \cup {g \in Groups : added[g].ids # <<>>
                                              /\ ctl[g] # <<>>}
  /\ UNCHANGED <<pc, group, opened, grps, fd, is_card_info_retrieved, driver,
                 lost>>

(* mixer_close: each group's ops->close and mixer_grp_close.  mixer_open    *)
(* calls it when both groups failed.                                       *)
mixer_close ==
  /\ pc \in {"ready", "fail"} /\ Dangling = {}
  /\ pc' = "null"
  /\ held' = held \ (Handle \cup UNION {Closed(g) \cup Res(g, {"grp", "ctl"}) :
                                         g \in grps})
  /\ lost' = lost \cup (IF "plug" \in grps THEN {"plug_close"} ELSE {})
  /\ UNCHANGED <<group, opened, mixer, driver, late>>

(* Any use of a group that was freed, by a call of the client or by        *)
(* mixer_close, is undefined.                                              *)
UseDangling ==
  /\ pc \in {"ready", "fail"} /\ Dangling # {}
  /\ pc' = "undefined"
  /\ UNCHANGED <<group, opened, mixer, driver, held, late, lost>>

HandleStep ==
  \/ mixer_open \/ mixer_grp_open \/ SampleOpenFails
  \/ CardInfo \/ OpenControls \/ ErrCardInfo \/ OpenEnd \/ UseDangling

------------------------------------------------------------------------------
(* The lookups.  A mixer_ctl is a group and a place in its array.          *)

NULL == <<"none", 0>>
Place(g, n) == <<g, n + 1>>
NumidOf(c) == ctl[c[1]][c[2]]
InfoOf(c) == Info(c[1], NumidOf(c))

mixer_grp_get_count(g) == IF g \in grps THEN Len(ctl[g]) ELSE 0

mixer_get_ctl(id) ==
  LET h_count == mixer_grp_get_count("hw")
  IN  IF id >= total_count THEN NULL
      ELSE IF id < h_count THEN Place("hw", id)
      ELSE IF id - h_count < mixer_grp_get_count("plug")
      THEN Place("plug", id - h_count)
      ELSE NULL

AnyDevice == {k.device : k \in Kinds} \cup {0}

(* The places of a group whose control has a name and one of the devices.  *)
Hits(g, name, devices) ==
  {n \in 1 .. mixer_grp_get_count(g) :
     InfoOf(<<g, n>>).name = name /\ InfoOf(<<g, n>>).device \in devices}

(* Where a loop stops that passes over as many hits as index says.         *)
Nth(hits, index) == CHOOSE n \in hits : Cardinality({m \in hits : m < n}) = index

mixer_get_num_ctls_by_name(name) ==
  Cardinality(Hits("hw", name, AnyDevice)) + Cardinality(Hits("plug", name, AnyDevice))

mixer_get_ctl_by_name_and_index_Restart(name, index) ==
  LET h == Hits("hw", name, AnyDevice)
      v == Hits("plug", name, AnyDevice)
  IN  IF index < Cardinality(h) THEN <<"hw", Nth(h, index)>>
      ELSE IF index < Cardinality(v) THEN <<"plug", Nth(v, index)>>
      ELSE NULL

(* The index goes on counting in the second group.                         *)
mixer_get_ctl_by_name_and_index(name, index) ==
  LET h == Hits("hw", name, AnyDevice)
      v == Hits("plug", name, AnyDevice)
      left == index - Cardinality(h)
  IN  IF left < 0 THEN <<"hw", Nth(h, index)>>
      ELSE IF left < Cardinality(v) THEN <<"plug", Nth(v, left)>>
      ELSE NULL

mixer_get_ctl_by_name(name) == mixer_get_ctl_by_name_and_index(name, 0)

mixer_get_ctl_by_name_and_device(name, device) ==
  LET h == Hits("hw", name, {device})
      v == Hits("plug", name, {device})
  IN  IF h # {} THEN <<"hw", Nth(h, 0)>>
      ELSE IF v # {} THEN <<"plug", Nth(v, 0)>>
      ELSE NULL

(* numid - 1 as an unsigned number: UINT_MAX for a numid of 0.             *)
mixer_ctl_get_id(c) == (NumidOf(c) - 1) % (UINT_MAX + 1)
==============================================================================
