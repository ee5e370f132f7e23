-------------------------- MODULE MixerProperties ---------------------------
(***************************************************************************)
(* What must hold of a mixer handle, its controls and their values.        *)
(***************************************************************************)
EXTENDS MixerValues

Usable == pc = "ready" /\ Dangling = {}

LeakOf ==
  [hw_data |-> {<<"hw", "fd">>}, hw |-> {<<"hw", "ctl">>},
   plug |-> Res("plug", {"ctl", "node", "eventfd"}),
   plug_close |-> Res("plug", {"node", "eventfd"})]
Leaks == UNION {LeakOf[f] : f \in lost}

Owned ==
  Handle \cup (UNION {Backend[g] \cup {<<g, "grp">>} : g \in grps})
    \cup {<<g, "ctl">> : g \in {h \in Groups : ctl[h] # <<>>}}

(* A handle mixer_open returned holds what its group pointers say, however *)
(* the openings failed, and points to no freed group, but when a group     *)
(* failed after its backend was opened and the other one opened well.      *)
HandleOwns ==
  pc = "ready" =>
    /\ Dangling = lost \cap Groups
    /\ Usable => Owned \subseteq held
    /\ Usable => held \subseteq Owned \cup Leaks \cup {<<g, "ctl">> : g \in grps}

(* When mixer_open has failed or mixer_close returns nothing is held, but  *)
(* what four failures keep: the descriptor of a device without memory for  *)
(* its data, the controls of a group that failed to open, and the node and *)
(* eventfd of every plugin mixer_plug_close closed.                        *)
ClosedClean == pc = "null" => held \subseteq Leaks

Ids == 0 .. total_count - 1

(* The ids below mixer_get_num_ctls are the controls of both groups, each  *)
(* once, after partial failures of add_controls too.                       *)
IdsDense ==
  Usable =>
    /\ {mixer_get_ctl(id) : id \in Ids} =
         UNION {{<<g, n>> : n \in DOMAIN ctl[g]} : g \in grps}
    /\ \A i, j \in Ids : mixer_get_ctl(i) = mixer_get_ctl(j) => i = j
    /\ mixer_get_ctl(total_count) = NULL

(* Names lead to the same controls as ids, in the order of the ids: the    *)
(* index of mixer_get_ctl_by_name_and_index counts through both groups and *)
(* ends at mixer_get_num_ctls_by_name, and the device picks the first.     *)
(* mixer_ctl_get_id leads back to a control of the kernel's (a plugin's    *)
(* numids begin at 0, and it is UINT_MAX for the first of those).          *)
NamesAgree ==
  Usable =>
    LET info == [id \in Ids |-> InfoOf(mixer_get_ctl(id))]
        Before(id) == {i \in Ids : i < id /\ info[i].name = info[id].name}
    IN  \A id \in Ids :
          LET c == mixer_get_ctl(id)
              name == info[id].name
              last == mixer_get_num_ctls_by_name(name)
          IN  /\ mixer_get_ctl_by_name_and_index(name, Cardinality(Before(id))) = c
              /\ mixer_get_ctl_by_name_and_index(name, last) = NULL
              /\ Before(id) = {} => mixer_get_ctl_by_name(name) = c
              /\ c[1] = "hw" => mixer_get_ctl(mixer_ctl_get_id(c)) = c
              /\ \/ \E i \in Before(id) : info[i].device = info[id].device
                 \/ mixer_get_ctl_by_name_and_device(name, info[id].device) = c

(* The controls of a group are the backend's first ones, in their order    *)
(* and each once, also when they came in several calls of                  *)
(* mixer_add_new_ctls, but for a plugin's that did.                        *)
ControlsListed ==
  Usable =>
    \A g \in grps : g = "hw" \/ g \notin late =>
      \A n \in DOMAIN ctl[g] : Addressed(g, ctl[g][n]) = n

Unraced(c) == <<c[1], Addressed(c[1], NumidOf(c))>> \notin raced
Asked(c) == asked[c[1]][Addressed(c[1], NumidOf(c))]

(* Every value of every control is the last one an accepted call asked     *)
(* for, although setting one value writes them all, unless another client  *)
(* wrote the control between the read and the write; mixer_ctl_get_array   *)
(* gives the same.                                                         *)
SetsHold ==
  Usable =>
    \A id \in Ids :
      LET c == mixer_get_ctl(id)
          type == InfoOf(c).type
      IN  Unraced(c) =>
            \A i \in DOMAIN Asked(c) :
              Asked(c)[i].by = "value" =>
                /\ mixer_ctl_get_value(c, i) = Asked(c)[i].arg
                /\ type # "enum" =>
                     mixer_ctl_get_array(c, i)[i] = Asked(c)[i].arg

(* A percentage that was set is read back, less at most one step of the    *)
(* control; 0 and 100 are the ends of the range.  That is so of ranges up  *)
(* to INT_MAX / 100, above which range * percent overflows (mixer.c:946).  *)
PercentsHold ==
  Usable =>
    \A id \in Ids :
      LET c == mixer_get_ctl(id)
          range == InfoOf(c).max - InfoOf(c).min
      IN  Unraced(c) =>
            \A i \in DOMAIN Asked(c) :
              LET percent == Asked(c)[i].arg
                  back == mixer_ctl_get_percent(c, i)
              IN  /\ Asked(c)[i].by = "percent" /\ percent \in 0 .. 100
                  /\ range > 0 /\ range * 100 <= INT_MAX
                  =>
                    /\ back <= percent
                    /\ (percent - back - 1) * range < 100
                    /\ percent = 0 => Stored(c)[i] = InfoOf(c).min
                    /\ percent = 100 => Stored(c)[i] = InfoOf(c).max

==============================================================================
