-------------------------- MODULE JournalInvariant --------------------------
(***************************************************************************)
(* The inductive invariant behind the safety properties of Journal, in     *)
(* named parts.  The properties alone are not inductive: they say nothing  *)
(* of a W that may still land, nor of what a sweep remembers of a row.     *)
(***************************************************************************)
EXTENDS Journal

\* All rows of a group carry the same state, plan and graph effect.
RowsAgree ==
  \A o, p \in Op : GroupOf[o] = GroupOf[p] =>
    /\ ops[o].state = ops[p].state
    /\ ops[o].plan = ops[p].plan
    /\ ops[o].effect = ops[p].effect

\* W is all or nothing: a slot's fence is applied exactly when its group's W is.
FenceTracksW ==
  \A o \in Op : fence[o].outcome = "applied" <=> w[GroupOf[o]] = "applied"

\* A fence, and whatever may still create one, carries the operation asked for.
OneOperation ==
  /\ \A o \in Op : /\ fence[o].operation = "asked"
                   /\ ops[o].effect => ops[o].operation = "asked"
  /\ \A m \in late : m.operation = "asked"
  /\ \A v \in Worker : \A r \in todo[v] : r.effect => r.operation = "asked"

Unreserved == {"reserve", "clash", "recover", "retry", "gap", "refused"}

\* What each stage of a run implies for its rows and its W.
StageOK ==
  \A o \in Op : LET g == GroupOf[o] IN
    /\ pc[g] \in Unreserved => ops[o].state = "none"
    /\ pc[g] \notin Unreserved \cup {"unproven"} => ops[o].state # "none"
    /\ pc[g] = "planning" => w[g] = "unsent" /\ ops[o].effect /\ ops[o].plan = "null"
    /\ pc[g] = "late" => w[g] = "unsent"
    /\ pc[g] = "planned" => /\ w[g] = "unsent" /\ ops[o].effect
                            /\ ops[o].state = "pending" => ops[o].plan # "null"
    /\ pc[g] = "sent" => w[g] # "unsent"
    /\ pc[g] = "written" => (ops[o].effect => w[g] = "applied")
    /\ pc[g] \in {"done", "ok"} => ops[o].state = "committed"
    /\ pc[g] \in {"declined", "aborted", "missing"} => ops[o].state = "aborted"

\* A W is sent only for a stored plan with graph effect, and a row without a plan
\* has not been through T1b.
PlanOK ==
  \A o \in Op : LET g == GroupOf[o] IN
    /\ w[g] # "unsent" => ops[o].effect /\ ops[o].state # "none"
    /\ ops[o].state \in {"none", "pending", "failed"} /\ ops[o].plan = "null" =>
         w[g] = "unsent" /\ ops[o].effect
    /\ ops[o].state = "none" => ops[o].plan = "null"
    /\ ops[o].state = "failed" => ops[o].plan # "null"

\* A decision is backed by the graph, and no W can overturn an abort any more.
DecisionBacked ==
  \A o \in Op : LET g == GroupOf[o] IN
    /\ ops[o].state \in {"committed", "failed"} /\ ops[o].effect => w[g] = "applied"
    /\ ops[o].state = "aborted" =>
         /\ w[g] # "applied"
         /\ w[g] = "inflight" \/ pc[g] = "planned" =>
              \E p \in Op : GroupOf[p] = g /\ fence[p].outcome = "aborted"

\* What a sweep remembers of a row is still true where its decision relies on it.
SweepKnows ==
  \A v \in Worker :
    /\ \A r \in todo[v] : ~r.effect => ~ops[r.op].effect
    /\ \A d \in deciding[v] :
         /\ d.heard # "mismatch"
         /\ d.heard = "aborted" => fence[d.row.op].outcome = "aborted"
         /\ d.heard = "applied" => fence[d.row.op].outcome = "applied" \/ ~ops[d.row.op].effect

\* At most one open row per CI.
OneOpenRow ==
  \A o, p \in Op : CiOf[o] = CiOf[p] /\ Open(o) /\ Open(p) => o = p

\* Where graph and evidence differ an open row whose W landed explains it, and
\* the graph holds the change of an open row whose W landed.
DivergenceExplained ==
  /\ \A c \in CI : graph[c] # recorded[c] =>
       \E o \in Op : CiOf[o] = c /\ Open(o) /\ w[GroupOf[o]] = "applied"
  /\ \A o \in Op : Open(o) /\ w[GroupOf[o]] = "applied" => graph[CiOf[o]] = GroupOf[o]

\* The journal, the fences, the graph and what sweeps remember stay consistent
\* in every interleaving of runs, sweeps, late statements and crashes.
JournalInv ==
  /\ TypeOK /\ RowsAgree /\ FenceTracksW /\ OneOperation /\ StageOK /\ PlanOK
  /\ DecisionBacked /\ SweepKnows /\ OneOpenRow /\ DivergenceExplained
  /\ AuditedExactlyOnce
=============================================================================
