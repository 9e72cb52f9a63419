------------------------------- MODULE NvLink --------------------------------
(***************************************************************************)
(* The check a group is built behind: nvlink_matrix and check_nvlink of    *)
(* src/src/nvlink.cc, called by _require_nvlink of                         *)
(* src/python/fast_ulysses/group.py.                                       *)
(*                                                                         *)
(* A machine has GPUs, links between pairs of them and links into a        *)
(* switch; NVML is asked for both ends of each link and may fail to say.   *)
(* It never invents a link.  Every rank runs this on the same list of      *)
(* devices and the same machine, so one rank's run is modelled; a step     *)
(* sweeps the links of one device.                                         *)
(***************************************************************************)
EXTENDS Naturals, Sequences, FiniteSets, FiniteSetsExt, SequencesExt

CONSTANTS Gpus,      \* the machine's devices, by their CUDA index
          Machines,  \* bound: the machines, with what NVML says of each
          Groups     \* bound: the devices of the ranks, in rank order

\* The far end of a link into the switch.
Switch == 100

\* A machine is [lib, found, direct, switched, idle, fails, errors]: whether NVML
\* can be loaded, the devices it has a handle for, the pairs of devices with an
\* active link, the devices with one into the switch, those with an inactive one,
\* the link ends it does not tell, and the devices whose sweep ends in an error.
\* A link end not told is [of, far, how]: the query of its type or of its far end
\* fails ("mute"), it names no device of the machine ("unmatched"), or the sweep
\* ends before it ("unreached").
ASSUME NvLinkAssumption ==
    /\ Gpus \subseteq Nat /\ Switch \notin Gpus
    /\ Groups \subseteq Seq(Gpus)
    /\ \A m \in Machines :
          /\ \A pair \in m.direct : pair \subseteq Gpus /\ Cardinality(pair) = 2
          /\ \A f \in m.fails : f.how \in {"mute", "unmatched", "unreached"}
          /\ \A f \in m.fails : f.how = "unreached" => f.of \in m.errors

VARIABLES machine, devices,
          todo,       \* the devices not swept yet
          linked,     \* the ordered pairs found to be joined
          on_switch,  \* the devices found to have a link into the switch
          verdict     \* what came of the check, and the pair a refusal names

vars == <<machine, devices, todo, linked, on_switch, verdict>>

Group == ToSet(devices)

Open == [is |-> "open", pair |-> <<>>]
Skipped == [is |-> "skipped", pair |-> <<>>]
CannotSay == [is |-> "cannot say", pair |-> <<>>]
Accepted == [is |-> "accepted", pair |-> <<>>]
Refused(i, j) == [is |-> "refused", pair |-> <<i, j>>]

Init ==
    /\ machine \in Machines /\ devices \in Groups
    /\ todo = {} /\ linked = {} /\ on_switch = {}
    /\ verdict = Open

------------------------------------------------------------------------------
(* What NVML answers. *)

\* The far ends of the active links of d.
Ends(d) ==
    {far \in Gpus : {d, far} \in machine.direct} \cup (IF d \in machine.switched THEN {Switch} ELSE {})

Told(d, far) == ~ \E f \in machine.fails : f.of = d /\ f.far = far
Unreached(d, far) == \E f \in machine.fails : f.of = d /\ f.far = far /\ f.how = "unreached"

\* Some query of d's links was answered: the state of one, or that there are
\* no more.
Answers(d) ==
    \/ d \notin machine.errors
    \/ d \in machine.idle
    \/ \E far \in Ends(d) : ~ Unreached(d, far)

------------------------------------------------------------------------------
(* The check. *)

\* More than one rank on a device: not what the check is about.
Skip ==
    /\ verdict = Open /\ linked = {}
    /\ ~ IsInjective(devices)
    /\ verdict' = Skipped
    /\ UNCHANGED <<machine, devices, todo, linked, on_switch>>

\* The library, and a handle for every device, or there is no matrix.
Begin ==
    /\ verdict = Open /\ linked = {}
    /\ IsInjective(devices)
    /\ \/ /\ machine.lib /\ Group \subseteq machine.found
          /\ todo' = Group
          /\ linked' = {<<d, d>> : d \in Group}
          /\ UNCHANGED verdict
       \/ /\ ~ (machine.lib /\ Group \subseteq machine.found)
          /\ verdict' = CannotSay
          /\ UNCHANGED <<todo, linked>>
    /\ UNCHANGED <<machine, devices, on_switch>>

\* Mutant: answered is set once for the whole sweep.
AnsweredByAny(d) == \E e \in (Group \ todo) \cup {d} : Answers(e)

Answered(d) == Answers(d)

\* The devices are swept in the order of their index.
Sweep ==
    /\ verdict = Open /\ todo # {}
    /\ LET d == Min(todo)
           peers == {far \in Ends(d) \cap Group : Told(d, far)}
       IN  /\ todo' = todo \ {d}
           /\ linked' = linked \cup {<<d, p>> : p \in peers} \cup {<<p, d>> : p \in peers}
           /\ on_switch' = on_switch \cup (IF Switch \in Ends(d) /\ Told(d, Switch) THEN {d} ELSE {})
           /\ verdict' = IF Answered(d) THEN Open ELSE CannotSay
    /\ UNCHANGED <<machine, devices>>

\* Mutant: one link into the switch reaches every device.
ReachesAll(through) == (through \X Group) \cup (Group \X through)

\* Every device on the switch reaches every other one on it.
Fabric(through) == through \X through

\* The pairs of ranks whose devices are not joined, and the one met first.
Missing(joined) ==
    LET ranks == DOMAIN devices
    IN  {p \in ranks \X ranks : <<devices[p[1]], devices[p[2]]>> \notin joined}

First(pairs) ==
    CHOOSE p \in pairs : \A q \in pairs : p[1] < q[1] \/ (p[1] = q[1] /\ p[2] <= q[2])

\* check_nvlink, once the fabric has been added to the matrix.
Decide ==
    /\ verdict = Open /\ linked # {} /\ todo = {}
    /\ linked' = linked \cup Fabric(on_switch)
    /\ LET missing == Missing(linked')
           first == First(missing)
       IN  verdict' = IF missing = {} THEN Accepted ELSE Refused(devices[first[1]], devices[first[2]])
    /\ UNCHANGED <<machine, devices, todo, on_switch>>

Rest == verdict # Open /\ UNCHANGED vars

Next == Skip \/ Begin \/ Sweep \/ Decide \/ Rest

Spec == Init /\ [][Next]_vars

------------------------------------------------------------------------------
(* Properties. *)

DirectlyJoined(i, j) == {i, j} \in machine.direct
ThroughSwitch(i, j) == {i, j} \subseteq machine.switched

\* A group is refused over a pair only when NVML, asked by a check that got an
\* answer from every device, told of no way the two are joined: a direct link it
\* withheld from both ends, a link into the switch it withheld from one.  What it
\* withholds of any other device or link refuses nobody.
RefusalIsFounded ==
    verdict.is = "refused" =>
        LET i == verdict.pair[1]
            j == verdict.pair[2]
        IN  /\ \A d \in Group : Answers(d)
            /\ DirectlyJoined(i, j) => ~ Told(i, j) /\ ~ Told(j, i)
            /\ ThroughSwitch(i, j) => ~ Told(i, Switch) \/ ~ Told(j, Switch)

\* The check fails open for a reason only: a group passes when all its devices
\* are joined, or when NVML is missing or had no answer at all for one of them.
PassIsFounded ==
    /\ verdict.is = "accepted" =>
          \A i, j \in Group : i # j => DirectlyJoined(i, j) \/ ThroughSwitch(i, j)
    /\ verdict.is = "cannot say" =>
          \/ ~ machine.lib
          \/ \E d \in Group : d \notin machine.found \/ ~ Answers(d)

\* What a comment says and the code does not do.  nvlink.cc, on the far end's
\* address: "an unmatched result is reported as 'cannot determine' rather than as
\* a missing link, so a layout change cannot turn into a wrong refusal".
UnmatchedIsNotMissing ==
    verdict.is = "refused" =>
        LET unmatched(d, far) == [of |-> d, far |-> far, how |-> "unmatched"] \in machine.fails
            i == verdict.pair[1]
            j == verdict.pair[2]
        IN  ~ (DirectlyJoined(i, j) /\ unmatched(i, j) /\ unmatched(j, i))
==============================================================================
