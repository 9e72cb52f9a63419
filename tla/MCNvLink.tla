------------------------------ MODULE MCNvLink -------------------------------
(* The machines NvLink is checked with: three GPUs, every pair of them wired or not, a switch
   that none, one, two or all of them are on. *)
EXTENDS NvLink

Pairs == {pair \in SUBSET Gpus : Cardinality(pair) = 2}

Wirings == [direct : SUBSET Pairs, switched : {{}, {3}, {1, 2}, Gpus}]

LinkEnds(w) == {<<d, far>> \in Gpus \X Gpus : {d, far} \in w.direct} \cup (w.switched \X {Switch})

\* Bound: at most two link ends of the wiring, each not told in one of the ways;
\* the switch is not asked for its address.
FailsOf(w) ==
    LET fails == {f \in [of : Gpus, far : Gpus \cup {Switch}, how : {"mute", "unmatched", "unreached"}] :
                     /\ <<f.of, f.far>> \in LinkEnds(w)
                     /\ f.how = "unmatched" => f.far # Switch}
    IN  {{}} \cup 
            {{h[1], h[2]} : h \in {p \in fails \X fails :
                p[1] = p[2] \/ p[1].of # p[2].of \/ p[1].far # p[2].far}}

\* A sweep ends in an error where a link is not reached, and may on one device
\* more; that device may have an inactive link, which it answers for.
MachineOf(w, fails, more, idle) ==
    [lib |-> TRUE, found |-> Gpus, direct |-> w.direct, switched |-> w.switched, idle |-> idle,
     fails |-> fails, errors |-> {f.of : f \in {g \in fails : g.how = "unreached"}} \cup more]

Answering ==
    UNION {{MachineOf(w, fails, more, idle) :
                fails \in FailsOf(w), more \in {{}, {1}}, idle \in {{}, {1}}} : w \in Wirings}

\* No library, or a device without a handle.
Silent ==
    {[MachineOf(w, {}, {}, {}) EXCEPT !.lib = b, !.found = f] :
        w \in Wirings, b \in BOOLEAN, f \in {Gpus, {2, 3}}}

AllMachines == Answering \cup Silent

AllGroups == {<<1, 2, 3>>, <<3, 1>>, <<2, 2>>}
==============================================================================
