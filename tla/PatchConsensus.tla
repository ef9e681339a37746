--------------------------- MODULE PatchConsensus ---------------------------
(***************************************************************************)
(* What the PatcherAgent does with the answer of its model: the commit     *)
(* gateway, the classification of risk, the 2-of-3 consensus over the      *)
(* cascade of the router (ModelRouter), and git apply.                     *)
(*                                                                         *)
(* SharedRouter says that the run's shared data holds "__router", without  *)
(* which the patcher asks nobody.  Nothing in the repository puts it       *)
(* there: the graph puts the router under "_router".                       *)
(***************************************************************************)
EXTENDS ModelRouter

CONSTANTS
    Diffs,              \* what the patcher's model may answer
    SharedRouter,
    Intents, Similar    \* _extract_patch_intent and _intents_similar

VARIABLE pass           \* what the patcher stands at: see Idle

patcher == <<router, pass>>

NoModel == "none"

\* A diff: what it means, and its risk: "blocked" if a path of it is for the
\* gateway, else "high" if one is for the router, it is longer than 150 lines
\* or the run's confidence below 0.6 (it is 0.5 until a verification).
NoDiff == [intent |-> "none", risk |-> "low"]

Idle == [stage |-> "idle", model |-> NoModel, diff |-> NoDiff, todo |-> <<>>, answers |-> <<>>]

PatcherInit == Init /\ pass = Idle

----------------------------------------------------------------------------
\* The agreement groups of verify_consensus: an answer joins the first group
\* whose first answer it resembles, or starts one.
Groups(answers) ==
    LET Alike(i, j) == <<answers[i].intent, answers[j].intent>> \in Similar
        G[n \in 0 .. Len(answers)] ==
            IF n = 0 THEN <<>>
            ELSE LET fits == {g \in DOMAIN G[n - 1] : Alike(G[n - 1][g][1], n)}
                 IN  IF fits = {} THEN Append(G[n - 1], <<n>>)
                     ELSE LET g == CHOOSE g \in fits : \A h \in fits : g <= h
                          IN  [G[n - 1] EXCEPT ![g] = Append(@, n)]
    IN  G[Len(answers)]

\* verify_consensus: the largest group has the required number.
Agreed(answers, required) ==
    IF Len(answers) < required THEN FALSE
    ELSE IF Len(answers) < 2 THEN required <= 1
    ELSE \E g \in DOMAIN Groups(answers) : Len(Groups(answers)[g]) >= required

\* classify_risk.
HighRisk(diff) == diff.risk # "low"

At(stage) == pass.stage = stage

\* _execute_node_with_retry gives the agent the model of this moment.
StartPatcher ==
    /\ At("idle")
    /\ pass' = [pass EXCEPT !.stage = "generate", !.model = Resolved]
    /\ UNCHANGED router

\* Mutant of Propose: the patcher's own model is asked too.
ProposeAskAll(diff) ==
    /\ At("generate")
    /\ pass' = [pass EXCEPT !.diff = diff, !.answers = <<[model |-> pass.model, intent |-> diff.intent]>>,
          !.todo = Cascade,
          !.stage = IF diff.risk = "blocked" THEN "held" ELSE "asking"]
    /\ UNCHANGED router

\* The model answered with a diff.  The gateway blocks sensitive paths; a
\* high risk asks at most two more models of the cascade.
Propose(diff) ==
    /\ At("generate")
    /\ \E cascade \in {Cascade} :
        LET others == IF pass.model \notin ToSet(cascade) THEN cascade
                      ELSE RemoveAt(cascade, CHOOSE k \in DOMAIN cascade : cascade[k] = pass.model)
            asks == SharedRouter /\ HighRisk(diff)
        IN  pass' = [pass EXCEPT !.diff = diff, !.answers = <<[model |-> pass.model, intent |-> diff.intent]>>,
              !.todo = IF asks THEN SubSeq(others, 1, IF Len(others) < 2 THEN Len(others) ELSE 2) ELSE <<>>,
              !.stage = IF diff.risk = "blocked" THEN "held" ELSE IF asks THEN "asking" ELSE "apply"]
    /\ UNCHANGED router

\* No diff in the answer (status invalid_patch), or the call raised, which
\* fails the node.
ProposeNothing ==
    /\ At("generate") /\ pass' = [pass EXCEPT !.stage = "nothing"]
    /\ UNCHANGED router

\* The next model answers; an answer without a diff and a failing call are
\* passed over.
Answer(intent) ==
    /\ At("asking") /\ pass.todo # <<>>
    /\ pass' = [pass EXCEPT !.todo = Tail(@),
          !.answers = Append(@, [model |-> pass.todo[1], intent |-> intent])]
    /\ UNCHANGED router
PassOver ==
    /\ At("asking") /\ pass.todo # <<>> /\ pass' = [pass EXCEPT !.todo = Tail(@)]
    /\ UNCHANGED router

Decide ==
    /\ At("asking") /\ pass.todo = <<>>
    /\ pass' = [pass EXCEPT !.stage = IF Agreed(pass.answers, 2) THEN "apply" ELSE "held"]
    /\ UNCHANGED router

\* git apply --check and git apply: the patch fits the tree or it does not.
Apply(stage) ==
    /\ At("apply") /\ stage \in {"applied", "conflict"} /\ pass' = [pass EXCEPT !.stage = stage]
    /\ UNCHANGED router

\* The router is changed while the patcher still reads it.
RouterStep == pass.stage \in {"idle", "generate"} /\ RouterNext /\ UNCHANGED pass

PatcherNext ==
    \/ StartPatcher \/ ProposeNothing \/ PassOver \/ Decide
    \/ \E diff \in Diffs : Propose(diff)
    \/ \E intent \in Intents : Answer(intent)
    \/ \E stage \in {"applied", "conflict"} : Apply(stage)

PatcherSpec == PatcherInit /\ [][RouterStep \/ PatcherNext]_patcher

----------------------------------------------------------------------------
\* What the patcher stands at.
PassTypeOK ==
    pass.stage \in {"idle", "generate", "asking", "apply", "applied", "conflict", "held", "nothing"}

\* A patch of high risk is applied only when two different models, of three
\* at most, answered alike; and consensus holds a patch back only when no two
\* answers are alike, though groups are compared by their first answer alone.
\* One of the two need not be the model whose patch it is (verify_consensus).
AlikePair(answers) ==
    \E i, j \in DOMAIN answers :
        /\ i < j /\ answers[i].model # answers[j].model
        /\ <<answers[i].intent, answers[j].intent>> \in Similar
RiskyAgreed ==
    /\ pass.stage \in {"apply", "applied"} /\ HighRisk(pass.diff) => AlikePair(pass.answers)
    /\ At("held") /\ pass.diff.risk # "blocked" => ~AlikePair(pass.answers)
    /\ Len(pass.answers) <= 3
=============================================================================
