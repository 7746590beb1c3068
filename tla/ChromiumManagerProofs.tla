------------------------- MODULE ChromiumManagerProofs -------------------------
(***************************************************************************)
(* No run of a browser is lost, for every number of accounts, requests,    *)
(* Instances and exits of processes: whatever still has a process is       *)
(* in.run, or is cancelled and waited for under in.mu; and what outlives   *)
(* Shutdown() was launched after Shutdown() had passed its Instance.       *)
(* What makes this inductive: in.mu's holder and the goroutine inside it   *)
(* point at each other, an Instance about to be started has no run, and    *)
(* the goroutine of Shutdown() stays before its drain as long as something *)
(* runs that it has to stop.                                               *)
(***************************************************************************)
EXTENDS ChromiumManager, TLAPS

InstRec == [id : Ids \cup {None}, holder : Goroutines \cup {None}, run : 0..MaxRuns]
RunRec == [inst : 0..MaxObjs, cancelled : BOOLEAN, proc : [Kinds -> ProcState], late : BOOLEAN]
GoRec == [op : Operations \cup {None}, id : Ids \cup {None}, inst : 0..MaxObjs,
          run : 0..MaxRuns, pc : Pc]
Types ==
  /\ instances \in [Ids -> 0..MaxObjs]
  /\ insts \in [Objs -> InstRec] /\ runs \in [Runs -> RunRec] /\ gos \in [Goroutines -> GoRec]
  /\ display \subseteq Ids /\ files \subseteq Ids
  /\ list \subseteq Objs /\ mgr \in {"serving", "stopping", "stopped"}
  /\ used \in [{"req", "crash"} -> Nat]

\* Where a goroutine holds in.mu.
InsidePc == {"locked", "drain", "start", "launch", "unlock"}
Inside(g) == gos[g].pc \in InsidePc

\* Whoever has to do with an Instance has one that belongs to an account.
NamedGos ==
  \A g \in Goroutines :
    /\ gos[g].pc # "idle" => gos[g].id \in Ids
    /\ gos[g].pc \in InsidePc \cup {"lock"} => gos[g].inst \in Objs /\ insts[gos[g].inst].id \in Ids
NamedInsts ==
  /\ \A id \in Ids : instances[id] # 0 => insts[instances[id]].id \in Ids
  /\ \A u \in Runs : runs[u].inst # 0 => insts[runs[u].inst].id \in Ids

HolderIsInside ==
  \A i \in Objs : insts[i].holder # None =>
    Inside(insts[i].holder) /\ gos[insts[i].holder].inst = i
InsideHolds == \A g \in Goroutines : Inside(g) => insts[gos[g].inst].holder = g

RunIsOwn ==
  \A i \in Objs : insts[i].run # 0 =>
    runs[insts[i].run].inst = i /\ ~runs[insts[i].run].cancelled
UnusedRests == \A u \in Runs : runs[u].inst = 0 => ~Live(u)
NothingYet ==
  \A g \in Goroutines : gos[g].pc \in {"drain", "start", "launch"} => insts[gos[g].inst].run = 0
Starters ==
  \A g \in Goroutines : gos[g].pc \in {"start", "launch"} => gos[g].op \in {"ensure", "restart"}

\* The goroutines of Shutdown(): one per Instance on the list, each on its own.
Halters ==
  \A i \in Objs : /\ gos[i].op \in {"halt", None}
                  /\ gos[i].pc \in {"idle", "lock", "locked", "drain", "unlock"}
                  /\ gos[i].pc # "idle" => gos[i].op = "halt" /\ gos[i].inst = i
Phases == /\ mgr = "serving" => list = {} /\ \A i \in Objs : At(i, "idle")
          /\ mgr = "stopped" => \A i \in Objs : At(i, "idle")
StillToHalt ==
  \A u \in Runs : Live(u) /\ runs[u].inst \in list /\ ~runs[u].late =>
    gos[runs[u].inst].pc \in {"lock", "locked", "drain"}

IInv ==
  /\ Types /\ NamedGos /\ NamedInsts /\ HolderIsInside /\ InsideHolds
  /\ RunIsOwn /\ UnusedRests /\ NothingYet /\ Starters /\ Halters /\ Phases
  /\ StillToHalt /\ LiveRunsAreHeld

-----------------------------------------------------------------------------
(***************************************************************************)
(* A goroutine goes on, and neither an Instance nor a run changes: fine as *)
(* long as it keeps its lock and leaves no drain too early.                *)
(***************************************************************************)
GoesTo(g, go) == gos' = [gos EXCEPT ![g] = go]
Fine(g, go) ==
  /\ go \in GoRec
  /\ go.pc # "idle" => go.id \in Ids
  /\ go.pc \in InsidePc <=> Inside(g)
  /\ go.pc \in InsidePc => go.inst = gos[g].inst
  /\ go.pc = "lock" => go.inst \in Objs /\ insts[go.inst].id \in Ids
  /\ go.pc # "drain" /\ (At(g, "drain") => Drained(g))
  /\ go.pc \in {"start", "launch"} => insts[go.inst].run = 0 /\ go.op \in {"ensure", "restart"}
  /\ g \in Objs =>
       /\ go.op \in {"halt", None} /\ go.pc \in {"idle", "lock", "locked", "drain", "unlock"}
       /\ go.pc # "idle" => go.op = "halt" /\ go.inst = g /\ ~At(g, "idle")
       /\ gos[g].pc \in {"lock", "locked"} => go.pc \in {"lock", "locked", "drain"}

LEMMA GoKeeps ==
  ASSUME IInv, NEW g \in Goroutines, NEW go, Fine(g, go), GoesTo(g, go),
         UNCHANGED <<insts, runs, list, mgr>>,
         instances' \in [Ids -> 0..MaxObjs], files' \subseteq Ids, display' \subseteq Ids,
         used' \in [{"req", "crash"} -> Nat],
         \A id \in Ids : instances'[id] # 0 => instances'[id] = instances[id]
  PROVE  IInv'
<1>1. /\ gos' \in [Goroutines -> GoRec] /\ gos'[g] = go
      /\ \A h \in Goroutines : h # g => gos'[h] = gos[h]
  BY DEF GoesTo, Fine, IInv, Types
<1>2. Types'
  BY <1>1 DEF IInv, Types
<1>3. NamedGos'
  BY <1>1 DEF IInv, NamedGos, Fine, Inside
<1>4. NamedInsts'
  BY DEF IInv, NamedInsts
<1>5. HolderIsInside'
  <2>1. \A i \in Objs : insts[i].holder # None => insts[i].holder \in Goroutines
    BY DEF IInv, Types, InstRec
  <2> QED
    BY <1>1, <2>1 DEF IInv, HolderIsInside, Fine, Inside
<1>6. InsideHolds'
  BY <1>1 DEF IInv, InsideHolds, Fine, Inside
<1>7. RunIsOwn' /\ UnusedRests'
  BY DEF IInv, RunIsOwn, UnusedRests, Live
<1>8. NothingYet' /\ Starters'
  BY <1>1 DEF IInv, NothingYet, Starters, Fine
<1>9. Halters'
  BY <1>1 DEF IInv, Halters, Fine, Goroutines
<1>10. Phases'
  BY <1>1 DEF IInv, Phases, Fine, At, Goroutines
<1>11. LiveRunsAreHeld'
  <2>1. SUFFICES ASSUME NEW u \in Runs, Live(u), insts[runs[u].inst].run # u \/ runs[u].cancelled
                 PROVE  /\ insts[runs[u].inst].run = 0 /\ runs[u].cancelled
                        /\ \E h \in Goroutines : /\ insts[runs[u].inst].holder = h
                                                 /\ gos'[h].pc = "drain" /\ gos'[h].run = u
    BY DEF LiveRunsAreHeld, Live, At
  <2>2. PICK h \in Goroutines : /\ insts[runs[u].inst].holder = h /\ At(h, "drain") /\ gos[h].run = u
                                /\ insts[runs[u].inst].run = 0 /\ runs[u].cancelled
    BY <2>1 DEF IInv, LiveRunsAreHeld
  <2>3. u # 0
    BY DEF Runs
  <2>4. h # g
    BY <2>1, <2>2, <2>3 DEF Fine, Drained
  <2> QED
    BY <1>1, <2>2, <2>4 DEF At
<1>12. StillToHalt'
  <2>1. SUFFICES ASSUME NEW u \in Runs, Live(u), runs[u].inst \in list, ~runs[u].late
                 PROVE  gos'[runs[u].inst].pc \in {"lock", "locked", "drain"}
    BY DEF StillToHalt, Live
  <2> DEFINE i == runs[u].inst
  <2>2. i \in Objs /\ i \in Goroutines /\ gos[i].pc \in {"lock", "locked", "drain"}
    BY <2>1 DEF IInv, Types, StillToHalt, Goroutines
  <2>3. CASE i # g
    BY <1>1, <2>2, <2>3
  <2>4. CASE i = g /\ gos[g].pc \in {"lock", "locked"}
    BY <1>1, <2>2, <2>4 DEF Fine
  <2>5. CASE i = g /\ gos[g].pc = "drain"
    \* Its own drain is over, so nothing of its Instance runs any more.
    <3>1. gos[i].inst = i /\ insts[i].holder = i
      BY <2>2, <2>5 DEF IInv, Halters, InsideHolds, Inside, InsidePc
    <3>2. insts[i].run = 0
      BY <2>2, <2>5, <3>1 DEF IInv, NothingYet
    <3>3. gos[i].run = u
      BY <2>1, <2>2, <3>1, <3>2 DEF IInv, LiveRunsAreHeld, Runs
    <3> QED
      BY <2>1, <2>5, <3>3 DEF Fine, Drained, At, Runs
  <2> QED
    BY <2>2, <2>3, <2>4, <2>5
<1> QED
  BY <1>2, <1>3, <1>4, <1>5, <1>6, <1>7, <1>8, <1>9, <1>10, <1>11, <1>12 DEF IInv

-----------------------------------------------------------------------------
(***************************************************************************)
(* Requests and the goroutines of Shutdown().                              *)
(***************************************************************************)
LEMMA BeginsStep ==
  ASSUME IInv, NEW g \in Requests, NEW op \in Operations, NEW id \in Ids, Begins(g, op, id)
  PROVE  IInv'
<1> USE ManagerAssumption
<1> DEFINE go == [NoGo EXCEPT !.op = op, !.id = id, !.pc = "lookup"]
<1>1. /\ GoesTo(g, go) /\ At(g, "idle") /\ op # "halt"
      /\ UNCHANGED <<instances, insts, runs, display, files, list, mgr>>
  BY DEF Begins, GoesTo
<1>2. used' \in [{"req", "crash"} -> Nat]
  BY DEF Begins, Spend, IInv, Types
<1>3. go \in GoRec /\ go.pc = "lookup" /\ go.id = id
  <2>1. NoGo \in GoRec
    BY DEF NoGo, GoRec, Pc
  <2> QED
    BY <2>1 DEF GoRec, Pc
<1>4. g \in Goroutines /\ g \notin Objs
  BY DEF Goroutines, Objs
<1> HIDE DEF go
<1>5. Fine(g, go)
  BY <1>1, <1>3, <1>4 DEF Fine, Inside, InsidePc, At
<1> QED
  BY <1>1, <1>2, <1>4, <1>5, GoKeeps DEF IInv, Types

\* What stays true of a goroutine's record whatever it does.
LEMMA GoKnown ==
  ASSUME IInv, NEW g \in Goroutines, ~At(g, "idle")
  PROVE  /\ gos[g] \in GoRec /\ gos[g].id \in Ids
         /\ g \in Objs => gos[g].op = "halt" /\ gos[g].inst = g
         /\ Inside(g) => /\ gos[g].inst \in Objs /\ insts[gos[g].inst].id \in Ids
                         /\ insts[gos[g].inst] \in InstRec
                         /\ insts[gos[g].inst].holder = g
BY DEF IInv, Types, NamedGos, Halters, InsideHolds, Inside, At

\* Returning ends what a goroutine does.
LEMMA ReturnFine ==
  ASSUME IInv, NEW g \in Goroutines, ~Inside(g), gos[g].pc \notin {"idle", "lock"}, Returns(g)
  PROVE  \E go : GoesTo(g, go) /\ Fine(g, go)
<1> USE ManagerAssumption
<1>1. /\ gos[g] \in GoRec /\ gos[g].id \in Ids
      /\ g \in Objs => gos[g].op = "halt" /\ gos[g].inst = g
  BY GoKnown DEF At
<1>2. g \notin Objs
  BY DEF IInv, Halters, Inside, InsidePc
<1>3. GoesTo(g, NoGo)
  BY <1>2 DEF Returns, GoesTo
<1>4. Fine(g, NoGo)
  <2>1. NoGo \in GoRec /\ NoGo.pc = "idle"
    BY DEF NoGo, GoRec, Pc
  <2> QED
    BY <1>2, <2>1 DEF Fine, Inside, InsidePc, At
<1> QED
  BY <1>3, <1>4

LEMMA ToLock ==
  ASSUME NEW r \in GoRec, NEW o \in Objs
  PROVE  /\ [r EXCEPT !.inst = o, !.pc = "lock"] \in GoRec
         /\ [r EXCEPT !.inst = o, !.pc = "lock"].inst = o
         /\ [r EXCEPT !.inst = o, !.pc = "lock"].pc = "lock"
         /\ [r EXCEPT !.inst = o, !.pc = "lock"].id = r.id
<1>1. o \in 0..MaxObjs /\ "lock" \in Pc
  BY ManagerAssumption DEF Objs, Pc
<1> QED
  BY <1>1 DEF GoRec

LEMMA LookupStep ==
  ASSUME IInv, NEW g \in Goroutines, Lookup(g)
  PROVE  IInv'
<1> USE ManagerAssumption
<1> DEFINE id == gos[g].id
           found == instances[id]
<1>1. /\ At(g, "lookup") /\ UNCHANGED <<runs, display, files, list, mgr, used>>
      /\ gos[g] \in GoRec /\ id \in Ids /\ g \notin Objs
  BY GoKnown DEF Lookup, At, IInv, Halters
<1>2. CASE /\ found # 0 /\ UNCHANGED <<instances, insts>>
           /\ gos' = [gos EXCEPT ![g].inst = found, ![g].pc = "lock"]
  <2> DEFINE go == [gos[g] EXCEPT !.inst = found, !.pc = "lock"]
  <2>1. GoesTo(g, go)
    BY <1>2 DEF GoesTo, IInv, Types
  <2>2. found \in Objs /\ insts[found].id \in Ids
    BY <1>1, <1>2 DEF IInv, Types, NamedInsts, Objs
  <2>3. go \in GoRec /\ go.inst = found /\ go.pc = "lock" /\ go.id = id
    BY <1>1, <2>2, ToLock
  <2> HIDE DEF go
  <2>4. Fine(g, go)
    BY <1>1, <2>2, <2>3 DEF Fine, Inside, InsidePc, At
  <2> QED
    BY <1>1, <1>2, <2>1, <2>4, GoKeeps DEF IInv, Types
<1>3. CASE UNCHANGED <<instances, insts>> /\ Returns(g)
  <2>1. \E go : GoesTo(g, go) /\ Fine(g, go)
    BY <1>1, <1>3, ReturnFine DEF At, Inside, InsidePc
  <2> QED
    BY <1>1, <1>3, <2>1, GoKeeps DEF IInv, Types
<1>4. CASE UNCHANGED <<instances, insts>> /\ Goes(g, "forget")
  <2> DEFINE go == [gos[g] EXCEPT !.pc = "forget"]
  <2>1. GoesTo(g, go)
    BY <1>4 DEF Goes, GoesTo
  <2>2. go \in GoRec /\ go.pc = "forget" /\ go.id = id
    BY <1>1 DEF GoRec, Pc
  <2> HIDE DEF go
  <2>3. Fine(g, go)
    BY <1>1, <2>2 DEF Fine, Inside, InsidePc, At
  <2> QED
    BY <1>1, <1>4, <2>1, <2>3, GoKeeps DEF IInv, Types
<1>5. CASE \E o \in Objs : /\ insts[o] = NoInst
                           /\ instances' = [instances EXCEPT ![id] = o]
                           /\ insts' = [insts EXCEPT ![o].id = id]
                           /\ gos' = [gos EXCEPT ![g].inst = o, ![g].pc = "lock"]
  <2>1. PICK o \in Objs : /\ insts[o] = NoInst
                          /\ instances' = [instances EXCEPT ![id] = o]
                          /\ insts' = [insts EXCEPT ![o].id = id]
                          /\ gos' = [gos EXCEPT ![g].inst = o, ![g].pc = "lock"]
    BY <1>5
  <2>2. /\ insts' \in [Objs -> InstRec] /\ insts'[o].id = id
        /\ \A i \in Objs : /\ insts'[i].holder = insts[i].holder /\ insts'[i].run = insts[i].run
                           /\ i # o => insts'[i] = insts[i]
    BY <1>1, <2>1 DEF IInv, Types, InstRec
  <2>3. /\ gos' \in [Goroutines -> GoRec] /\ gos'[g].inst = o /\ gos'[g].pc = "lock"
        /\ gos'[g].id = id /\ \A h \in Goroutines : h # g => gos'[h] = gos[h]
    <3>1. gos' = [gos EXCEPT ![g] = [gos[g] EXCEPT !.inst = o, !.pc = "lock"]]
      BY <2>1 DEF IInv, Types
    <3>2. [gos[g] EXCEPT !.inst = o, !.pc = "lock"] \in GoRec
      BY <1>1, ToLock
    <3> QED
      BY ZenonT(60), <1>1, <3>1, <3>2, ToLock DEF IInv, Types
  <2> HIDE DEF found
  <2>4. /\ instances' \in [Ids -> 0..MaxObjs] /\ instances'[id] = o
        /\ \A x \in Ids : x # id => instances'[x] = instances[x]
    BY <1>1, <2>1 DEF IInv, Types, Objs
  <2> HIDE DEF id
  <2>5. Types'
    BY <1>1, <2>2, <2>3, <2>4 DEF IInv, Types
  <2>6. \A i \in Objs : insts[i].id \in Ids => insts'[i].id \in Ids
    BY <1>1, <2>2
  <2>7. NamedGos'
    BY <1>1, <2>2, <2>3, <2>6 DEF IInv, NamedGos, InsidePc
  <2>8. NamedInsts'
    <3>1. \A x \in Ids : instances'[x] # 0 => insts'[instances'[x]].id \in Ids
      <4>1. SUFFICES ASSUME NEW x \in Ids, instances'[x] # 0 PROVE insts'[instances'[x]].id \in Ids
        OBVIOUS
      <4>2. CASE x = id
        BY <1>1, <2>2, <2>4, <4>2
      <4>3. CASE x # id
        <5>1. instances'[x] = instances[x] /\ instances[x] \in Objs
          BY <2>4, <4>1, <4>3 DEF Objs
        <5> QED
          BY <2>6, <4>1, <5>1 DEF IInv, NamedInsts
      <4> QED
        BY <4>2, <4>3
    <3>2. \A u \in Runs : runs[u].inst # 0 => insts'[runs[u].inst].id \in Ids
      BY <2>6 DEF IInv, Types, NamedInsts, RunRec, Objs
    <3> QED
      BY <1>1, <3>1, <3>2 DEF NamedInsts
  <2>9. HolderIsInside'
    <3>1. SUFFICES ASSUME NEW i \in Objs, insts[i].holder # None
                   PROVE  gos'[insts[i].holder].pc \in InsidePc /\ gos'[insts[i].holder].inst = i
      BY <2>2 DEF HolderIsInside, Inside
    <3>2. insts[i].holder \in Goroutines /\ Inside(insts[i].holder) /\ gos[insts[i].holder].inst = i
      BY <3>1 DEF IInv, Types, InstRec, HolderIsInside
    <3> QED
      BY <1>1, <2>3, <3>2 DEF Inside, InsidePc, At
  <2>10. InsideHolds'
    <3>1. SUFFICES ASSUME NEW h \in Goroutines, gos'[h].pc \in InsidePc
                   PROVE  insts'[gos'[h].inst].holder = h
      BY DEF InsideHolds, Inside
    <3>2. h # g /\ gos'[h] = gos[h]
      BY <2>3, <3>1 DEF InsidePc
    <3>3. gos[h].inst \in Objs /\ insts[gos[h].inst].holder = h
      BY <3>1, <3>2 DEF IInv, InsideHolds, NamedGos, Inside
    <3> QED
      BY <2>2, <3>2, <3>3
  <2>11. RunIsOwn' /\ UnusedRests'
    BY <1>1, <2>2 DEF IInv, RunIsOwn, UnusedRests, Live
  <2>12. NothingYet' /\ Starters'
    <3>1. \A h \in Goroutines : gos'[h].pc \in {"drain", "start", "launch"} =>
            h # g /\ gos'[h] = gos[h] /\ gos[h].inst \in Objs
      BY <2>3 DEF IInv, NamedGos, InsidePc
    <3> QED
      BY <2>2, <3>1 DEF IInv, NothingYet, Starters
  <2>13. Halters' /\ Phases'
    BY <1>1, <2>3 DEF IInv, Halters, Phases, Goroutines, At
  <2>14. LiveRunsAreHeld'
    <3>1. SUFFICES ASSUME NEW u \in Runs, Live(u)
                   PROVE  \/ insts'[runs[u].inst].run = u /\ ~runs[u].cancelled
                          \/ /\ insts'[runs[u].inst].run = 0 /\ runs[u].cancelled
                             /\ \E h \in Goroutines : /\ insts'[runs[u].inst].holder = h
                                                      /\ gos'[h].pc = "drain" /\ gos'[h].run = u
      BY <1>1 DEF LiveRunsAreHeld, Live, At
    <3>2. runs[u].inst \in Objs
      BY <3>1 DEF IInv, Types, RunRec, UnusedRests, Objs
    <3>3. \/ insts[runs[u].inst].run = u /\ ~runs[u].cancelled
          \/ /\ insts[runs[u].inst].run = 0 /\ runs[u].cancelled
             /\ \E h \in Goroutines : /\ insts[runs[u].inst].holder = h
                                      /\ gos[h].pc = "drain" /\ gos[h].run = u
      BY <3>1 DEF IInv, LiveRunsAreHeld, At
    <3> QED
      BY <1>1, <2>2, <2>3, <3>2, <3>3 DEF At
  <2>15. StillToHalt'
    <3>1. SUFFICES ASSUME NEW u \in Runs, Live(u), runs[u].inst \in list, ~runs[u].late
                   PROVE  gos'[runs[u].inst].pc \in {"lock", "locked", "drain"}
      BY <1>1 DEF StillToHalt, Live
    <3>2. runs[u].inst \in Objs /\ gos[runs[u].inst].pc \in {"lock", "locked", "drain"}
      BY <3>1 DEF IInv, Types, StillToHalt
    <3> QED
      BY <1>1, <2>3, <3>2 DEF Goroutines
  <2> QED
    BY <2>5, <2>7, <2>8, <2>9, <2>10, <2>11, <2>12, <2>13, <2>14, <2>15 DEF IInv
<1> QED
  BY <1>2, <1>3, <1>4, <1>5 DEF Lookup

\* A goroutine goes to another pc, with or without another run.
Same(go, r) == go \in GoRec /\ go.inst = r.inst /\ go.id = r.id /\ go.op = r.op
LEMMA ToPc ==
  ASSUME NEW r \in GoRec, NEW pc \in Pc
  PROVE  Same([r EXCEPT !.pc = pc], r) /\ [r EXCEPT !.pc = pc].pc = pc
BY DEF GoRec, Same

WithRun(r, u, pc) == [r EXCEPT !.run = u, !.pc = pc]
LEMMA ToPcAndRun ==
  ASSUME NEW r \in GoRec, NEW pc \in Pc, NEW u \in 0..MaxRuns
  PROVE  Same(WithRun(r, u, pc), r) /\ WithRun(r, u, pc).pc = pc /\ WithRun(r, u, pc).run = u
BY DEF GoRec, Same, WithRun

LEMMA ToPcs ==
  ASSUME IInv, NEW g \in Goroutines, NEW pc, NEW u
  PROVE  /\ Goes(g, pc) => GoesTo(g, [gos[g] EXCEPT !.pc = pc])
         /\ gos' = [gos EXCEPT ![g].run = u, ![g].pc = pc] =>
              GoesTo(g, WithRun(gos[g], u, pc))
BY DEF Goes, WithRun, GoesTo, IInv, Types

LEMMA DecidesStep ==
  ASSUME IInv, NEW g \in Goroutines, Decides(g)
  PROVE  IInv'
<1> DEFINE run == insts[gos[g].inst].run
           pc == IF gos[g].op = "ensure" /\ run = 0 THEN "start" ELSE "unlock"
           go == WithRun(gos[g], run, pc)
<1>1. /\ At(g, "locked") /\ gos[g].op \in {"ensure", "endpoints"}
      /\ UNCHANGED <<instances, insts, runs, display, files, list, mgr, used>>
      /\ gos' = [gos EXCEPT ![g].run = run, ![g].pc = pc]
  BY DEF Decides
<1>2. /\ gos[g] \in GoRec /\ gos[g].id \in Ids /\ g \notin Objs /\ Inside(g)
      /\ run \in 0..MaxRuns /\ gos[g].inst \in Objs
  BY <1>1, GoKnown DEF At, Inside, InsidePc, InstRec
<1>3. GoesTo(g, go)
  BY <1>1, ToPcs
<1>4. pc \in {"start", "unlock"} /\ (pc = "start" => run = 0 /\ gos[g].op = "ensure")
  OBVIOUS
<1>5. go \in GoRec /\ go.pc = pc /\ go.inst = gos[g].inst /\ go.id = gos[g].id /\ go.op = gos[g].op
  <2>1. pc \in Pc
    BY DEF Pc
  <2> HIDE DEF pc, run
  <2>2. Same(go, gos[g]) /\ go.pc = pc
    BY <1>2, <2>1, ToPcAndRun
  <2> QED
    BY <2>2 DEF Same
<1>6. Fine(g, go)
  <2>1. go.pc = "start" => insts[go.inst].run = 0 /\ go.op = "ensure"
    BY <1>4, <1>5
  <2> HIDE DEF go, pc, run
  <2> QED
    BY <1>1, <1>2, <1>4, <1>5, <2>1 DEF Fine, Inside, InsidePc, At
<1> HIDE DEF go
<1> QED
  BY <1>1, <1>3, <1>6, GoKeeps DEF IInv, Types

LEMMA AfterStopStep ==
  ASSUME IInv, NEW g \in Goroutines, AfterStop(g)
  PROVE  IInv'
<1> DEFINE pc == IF gos[g].op = "restart" THEN "start" ELSE "unlock"
           go == WithRun(gos[g], 0, pc)
<1>1. /\ At(g, "drain") /\ Drained(g)
      /\ UNCHANGED <<instances, insts, runs, display, files, list, mgr, used>>
      /\ gos' = [gos EXCEPT ![g].run = 0, ![g].pc = pc]
  BY DEF AfterStop
<1>2. /\ gos[g] \in GoRec /\ gos[g].id \in Ids /\ Inside(g)
      /\ g \in Objs => gos[g].op = "halt" /\ gos[g].inst = g
      /\ insts[gos[g].inst].run = 0
  BY <1>1, GoKnown DEF At, Inside, InsidePc, IInv, NothingYet
<1>3. GoesTo(g, go)
  BY <1>1, ToPcs
<1>4. pc \in {"start", "unlock"} /\ (pc = "start" => gos[g].op = "restart")
  OBVIOUS
<1>5. go \in GoRec /\ go.pc = pc /\ go.inst = gos[g].inst /\ go.id = gos[g].id /\ go.op = gos[g].op
  <2>1. 0 \in 0..MaxRuns /\ pc \in Pc
    BY ManagerAssumption DEF Pc
  <2> HIDE DEF pc
  <2>2. Same(go, gos[g]) /\ go.pc = pc
    BY <1>2, <2>1, ToPcAndRun
  <2> QED
    BY <2>2 DEF Same
<1> HIDE DEF go, pc
<1>6. Fine(g, go)
  BY <1>1, <1>2, <1>4, <1>5 DEF Fine, Inside, InsidePc, At
<1> QED
  BY <1>1, <1>3, <1>6, GoKeeps DEF IInv, Types

LEMMA PreparesStep ==
  ASSUME IInv, NEW g \in Goroutines, Prepares(g)
  PROVE  IInv'
<1>1. /\ At(g, "start") /\ UNCHANGED <<instances, insts, runs, display, list, mgr, used>>
      /\ \/ Goes(g, "launch") /\ files' = files \cup {gos[g].id}
         \/ Goes(g, "unlock") /\ files' = files
  BY DEF Prepares, AfterFailedStart
<1>2. /\ gos[g] \in GoRec /\ gos[g].id \in Ids /\ Inside(g) /\ g \notin Objs
      /\ insts[gos[g].inst].run = 0 /\ gos[g].op \in {"ensure", "restart"}
  BY <1>1, GoKnown DEF At, Inside, InsidePc, IInv, NothingYet, Starters, Halters
<1>3. files' \subseteq Ids
  BY <1>1, <1>2 DEF IInv, Types
<1>4. PICK pc \in {"launch", "unlock"} : Goes(g, pc)
  BY <1>1
<1> DEFINE go == [gos[g] EXCEPT !.pc = pc]
<1>5. GoesTo(g, go)
  BY <1>4, ToPcs
<1>6. go \in GoRec /\ go.pc = pc /\ go.inst = gos[g].inst /\ go.id = gos[g].id /\ go.op = gos[g].op
  <2>1. pc \in Pc
    BY DEF Pc
  <2> QED
    BY <1>2, <2>1, ToPc DEF Same
<1> HIDE DEF go
<1>7. Fine(g, go)
  BY <1>1, <1>2, <1>6 DEF Fine, Inside, InsidePc, At
<1> QED
  BY <1>1, <1>3, <1>5, <1>7, GoKeeps DEF IInv, Types

LEMMA WaitStep ==
  ASSUME IInv, NEW g \in Goroutines, Answers(g) \/ TimesOut(g) \/ RemovesFiles(g)
  PROVE  IInv'
<1>1. /\ gos[g].pc \in {"wait", "remove"} /\ Returns(g)
      /\ UNCHANGED <<instances, insts, runs, list, mgr, used>>
  BY DEF Answers, TimesOut, RemovesFiles, At
<1>2. \E go : GoesTo(g, go) /\ Fine(g, go)
  BY <1>1, ReturnFine DEF Inside, InsidePc
<1>3. files' \subseteq Ids /\ display' \subseteq Ids
  BY DEF Answers, TimesOut, RemovesFiles, IInv, Types
<1> QED
  BY <1>1, <1>2, <1>3, GoKeeps DEF IInv, Types

LEMMA ForgetsStep ==
  ASSUME IInv, NEW g \in Goroutines, Forgets(g)
  PROVE  IInv'
<1>1. /\ At(g, "forget") /\ Goes(g, "remove")
      /\ UNCHANGED <<insts, runs, display, files, list, mgr, used>>
      /\ instances' = [instances EXCEPT ![gos[g].id] = 0]
  BY DEF Forgets
<1>2. gos[g] \in GoRec /\ gos[g].id \in Ids /\ g \notin Objs
  BY <1>1, GoKnown DEF At, IInv, Halters
<1>3. /\ instances' \in [Ids -> 0..MaxObjs]
      /\ \A id \in Ids : instances'[id] # 0 => instances'[id] = instances[id]
  BY <1>1, <1>2, ManagerAssumption DEF IInv, Types
<1> DEFINE go == [gos[g] EXCEPT !.pc = "remove"]
<1>4. GoesTo(g, go)
  BY <1>1, ToPcs
<1>5. go \in GoRec /\ go.pc = "remove" /\ go.id = gos[g].id
  <2>1. "remove" \in Pc
    BY DEF Pc
  <2> QED
    BY <1>2, <2>1, ToPc DEF Same
<1> HIDE DEF go
<1>6. Fine(g, go)
  BY <1>1, <1>2, <1>5 DEF Fine, Inside, InsidePc, At
<1> QED
  BY <1>1, <1>3, <1>4, <1>6, GoKeeps DEF IInv, Types

-----------------------------------------------------------------------------
(***************************************************************************)
(* in.mu: whoever takes it is alone inside.                                *)
(***************************************************************************)
LEMMA LocksStep ==
  ASSUME IInv, NEW g \in Goroutines, Locks(g)
  PROVE  IInv'
<1> USE ManagerAssumption
<1> DEFINE i == gos[g].inst
           go == [gos[g] EXCEPT !.pc = "locked"]
<1>1. /\ At(g, "lock") /\ insts[i].holder = None /\ insts' = [insts EXCEPT ![i].holder = g]
      /\ UNCHANGED <<instances, runs, display, files, list, mgr, used>>
  BY DEF Locks
<1>2. /\ gos[g] \in GoRec /\ gos[g].id \in Ids /\ i \in Objs /\ insts[i].id \in Ids
      /\ g \in Objs => gos[g].op = "halt" /\ i = g
  BY <1>1, GoKnown DEF At, IInv, NamedGos
<1>3. /\ gos' \in [Goroutines -> GoRec] /\ gos'[g].pc = "locked" /\ gos'[g].inst = i
      /\ gos'[g].id = gos[g].id /\ gos'[g].op = gos[g].op
      /\ \A h \in Goroutines : h # g => gos'[h] = gos[h]
  <2>1. gos' = [gos EXCEPT ![g] = go]
    BY DEF Locks, Goes
  <2>2. "locked" \in Pc
    BY DEF Pc
  <2>3. Same(go, gos[g]) /\ go.pc = "locked"
    BY <1>2, <2>2, ToPc
  <2> HIDE DEF go
  <2> QED
    BY <2>1, <2>3 DEF Same, IInv, Types
<1> HIDE DEF i
<1>4. /\ insts' \in [Objs -> InstRec] /\ insts'[i].holder = g
      /\ \A o \in Objs : /\ insts'[o].id = insts[o].id /\ insts'[o].run = insts[o].run
                         /\ o # i => insts'[o] = insts[o]
  BY <1>1, <1>2 DEF IInv, Types, InstRec
<1>5. Types'
  BY <1>1, <1>3, <1>4 DEF IInv, Types
<1>6. NamedGos'
  BY <1>2, <1>3, <1>4 DEF IInv, NamedGos, InsidePc
<1>7. NamedInsts'
  BY <1>1, <1>4 DEF IInv, Types, NamedInsts, RunRec, Objs
\* Nobody else is inside i, for its holder was None.
<1>8. \A h \in Goroutines : Inside(h) => h # g /\ gos[h].inst \in Objs /\ gos[h].inst # i
  BY <1>1 DEF IInv, Types, InsideHolds, NamedGos, Inside, InsidePc, At, Goroutines, Objs
<1>9. HolderIsInside'
  <2>1. SUFFICES ASSUME NEW o \in Objs, insts'[o].holder # None
                 PROVE  gos'[insts'[o].holder].pc \in InsidePc /\ gos'[insts'[o].holder].inst = o
    BY DEF HolderIsInside, Inside
  <2>2. CASE o = i
    BY <1>3, <1>4, <2>2 DEF InsidePc
  <2>3. CASE o # i
    <3>1. insts[o].holder \in Goroutines /\ Inside(insts[o].holder) /\ gos[insts[o].holder].inst = o
      BY <1>4, <2>1, <2>3 DEF IInv, Types, InstRec, HolderIsInside
    <3> QED
      BY <1>3, <1>4, <1>8, <2>3, <3>1 DEF Inside
  <2> QED
    BY <2>2, <2>3
<1>10. InsideHolds'
  <2>1. SUFFICES ASSUME NEW h \in Goroutines, gos'[h].pc \in InsidePc
                 PROVE  insts'[gos'[h].inst].holder = h
    BY DEF InsideHolds, Inside
  <2>2. CASE h = g
    BY <1>3, <1>4, <2>2
  <2>3. CASE h # g
    BY <1>3, <1>4, <1>8, <2>1, <2>3 DEF IInv, InsideHolds, Inside
  <2> QED
    BY <2>2, <2>3
<1>11. RunIsOwn' /\ UnusedRests'
  BY <1>1, <1>4 DEF IInv, RunIsOwn, UnusedRests, Live
<1>12. NothingYet' /\ Starters'
  <2>1. \A h \in Goroutines : gos'[h].pc \in {"drain", "start", "launch"} =>
          h # g /\ gos'[h] = gos[h] /\ gos[h].inst \in Objs
    BY <1>3 DEF IInv, NamedGos, InsidePc
  <2> QED
    BY <1>4, <2>1 DEF IInv, NothingYet, Starters
<1>13. Halters' /\ Phases'
  <2>1. \A o \in Objs : o \in Goroutines
    BY DEF Goroutines
  <2>2. Halters'
    BY <1>2, <1>3, <2>1 DEF IInv, Halters, i
  <2>3. Phases'
    BY <1>1, <1>3, <2>1 DEF IInv, Phases, At
  <2> QED
    BY <2>2, <2>3
<1>14. LiveRunsAreHeld'
  <2>1. SUFFICES ASSUME NEW u \in Runs, Live(u)
                 PROVE  \/ insts'[runs[u].inst].run = u /\ ~runs[u].cancelled
                        \/ /\ insts'[runs[u].inst].run = 0 /\ runs[u].cancelled
                           /\ \E h \in Goroutines : /\ insts'[runs[u].inst].holder = h
                                                    /\ gos'[h].pc = "drain" /\ gos'[h].run = u
    BY <1>1 DEF LiveRunsAreHeld, Live, At
  <2>2. runs[u].inst \in Objs
    BY <2>1 DEF IInv, Types, RunRec, UnusedRests, Objs
  <2>3. \/ insts[runs[u].inst].run = u /\ ~runs[u].cancelled
        \/ /\ insts[runs[u].inst].run = 0 /\ runs[u].cancelled
           /\ \E h \in Goroutines : /\ insts[runs[u].inst].holder = h
                                    /\ gos[h].pc = "drain" /\ gos[h].run = u
    BY <2>1 DEF IInv, LiveRunsAreHeld, At
  <2>4. None \notin Goroutines
    BY DEF Goroutines, Objs
  <2> QED
    BY <1>1, <1>3, <1>4, <2>2, <2>3, <2>4 DEF At
<1>15. StillToHalt'
  <2>1. SUFFICES ASSUME NEW u \in Runs, Live(u), runs[u].inst \in list, ~runs[u].late
                 PROVE  gos'[runs[u].inst].pc \in {"lock", "locked", "drain"}
    BY <1>1 DEF StillToHalt, Live
  <2>2. runs[u].inst \in Goroutines /\ gos[runs[u].inst].pc \in {"lock", "locked", "drain"}
    BY <2>1 DEF IInv, Types, StillToHalt, Goroutines
  <2> QED
    BY <1>3, <2>2
<1> QED
  BY <1>5, <1>6, <1>7, <1>9, <1>10, <1>11, <1>12, <1>13, <1>14, <1>15 DEF IInv

LEMMA UnlocksStep ==
  ASSUME IInv, NEW g \in Goroutines, Unlocks(g)
  PROVE  IInv'
<1> USE ManagerAssumption
<1> DEFINE i == gos[g].inst
<1>1. /\ At(g, "unlock") /\ insts' = [insts EXCEPT ![i].holder = None]
      /\ UNCHANGED <<instances, runs, display, files, list, mgr, used>>
  BY DEF Unlocks
<1>2. /\ gos[g] \in GoRec /\ gos[g].id \in Ids /\ i \in Objs /\ insts[i].holder = g
      /\ g \in Objs => gos[g].op = "halt" /\ i = g
  BY <1>1, GoKnown DEF At, Inside, InsidePc
<1>3. /\ gos' \in [Goroutines -> GoRec] /\ gos'[g].pc \in {"idle", "forget", "wait"}
      /\ gos'[g].pc # "idle" => gos'[g].id \in Ids /\ g \notin Objs
      /\ g \in Objs => gos'[g].op = "halt"
      /\ \A h \in Goroutines : h # g => gos'[h] = gos[h]
  <2>1. "idle" \in Pc /\ "forget" \in Pc /\ "wait" \in Pc /\ NoGo \in GoRec /\ NoGo.pc = "idle"
    BY DEF Pc, NoGo, GoRec
  <2>2. PICK go : /\ gos' = [gos EXCEPT ![g] = go] /\ go \in GoRec /\ go.pc \in {"idle", "forget", "wait"}
                  /\ go.pc # "idle" => go.id \in Ids /\ g \notin Objs
                  /\ g \in Objs => go.op = "halt"
    <3>1. CASE Goes(g, "forget") /\ gos[g].op = "delete"
      BY <1>2, <2>1, <3>1, ToPc DEF Goes, Same
    <3>2. CASE Goes(g, "wait") /\ gos[g].op \in {"ensure", "restart"}
      BY <1>2, <2>1, <3>2, ToPc DEF Goes, Same
    <3>3. CASE Returns(g) /\ g \in Objs
      <4> DEFINE go == [gos[g] EXCEPT !.pc = "idle"]
      <4>1. gos' = [gos EXCEPT ![g] = go]
        BY <3>3 DEF Returns, IInv, Types
      <4>2. go \in GoRec /\ go.pc = "idle" /\ go.op = "halt"
        BY <1>2, <2>1, <3>3, ToPc DEF Same
      <4> HIDE DEF go
      <4> QED
        BY <3>3, <4>1, <4>2
    <3>4. CASE Returns(g) /\ g \notin Objs
      BY <2>1, <3>4 DEF Returns
    <3> QED
      BY <3>1, <3>2, <3>3, <3>4 DEF Unlocks
  <2> QED
    BY <2>2 DEF IInv, Types
<1> HIDE DEF i
<1>4. /\ insts' \in [Objs -> InstRec] /\ insts'[i].holder = None
      /\ \A o \in Objs : /\ insts'[o].id = insts[o].id /\ insts'[o].run = insts[o].run
                         /\ o # i => insts'[o] = insts[o]
  BY <1>1, <1>2 DEF IInv, Types, InstRec
<1>5. Types'
  BY <1>1, <1>3, <1>4 DEF IInv, Types
<1>6. NamedGos'
  BY <1>2, <1>3, <1>4 DEF IInv, NamedGos, InsidePc
<1>7. NamedInsts'
  BY <1>1, <1>4 DEF IInv, Types, NamedInsts, RunRec, Objs
<1>8. \A h \in Goroutines : Inside(h) /\ h # g => gos[h].inst \in Objs /\ gos[h].inst # i
  BY <1>2 DEF IInv, InsideHolds, NamedGos, Inside
<1>9. HolderIsInside'
  <2>1. SUFFICES ASSUME NEW o \in Objs, insts'[o].holder # None
                 PROVE  gos'[insts'[o].holder].pc \in InsidePc /\ gos'[insts'[o].holder].inst = o
    BY DEF HolderIsInside, Inside
  <2>2. o # i /\ insts'[o].holder = insts[o].holder
    BY <1>4, <2>1
  <2>3. insts[o].holder \in Goroutines /\ Inside(insts[o].holder) /\ gos[insts[o].holder].inst = o
    BY <2>1, <2>2 DEF IInv, Types, InstRec, HolderIsInside
  <2> QED
    BY <1>3, <2>2, <2>3 DEF Inside, i
<1>10. InsideHolds'
  <2>1. SUFFICES ASSUME NEW h \in Goroutines, gos'[h].pc \in InsidePc
                 PROVE  insts'[gos'[h].inst].holder = h
    BY DEF InsideHolds, Inside
  <2>2. h # g
    BY <1>3, <2>1 DEF InsidePc
  <2> QED
    BY <1>3, <1>4, <1>8, <2>1, <2>2 DEF IInv, InsideHolds, Inside
<1>11. RunIsOwn' /\ UnusedRests'
  BY <1>1, <1>4 DEF IInv, RunIsOwn, UnusedRests, Live
<1>12. NothingYet' /\ Starters'
  <2>1. \A h \in Goroutines : gos'[h].pc \in {"drain", "start", "launch"} =>
          h # g /\ gos'[h] = gos[h] /\ gos[h].inst \in Objs
    BY <1>3 DEF IInv, NamedGos, InsidePc
  <2> QED
    BY <1>4, <2>1 DEF IInv, NothingYet, Starters
<1>13. Halters' /\ Phases'
  <2>1. \A o \in Objs : o \in Goroutines
    BY DEF Goroutines
  <2>2. Halters'
    BY <1>2, <1>3, <2>1 DEF IInv, Halters
  <2>3. Phases'
    BY <1>1, <1>3, <2>1 DEF IInv, Phases, At
  <2> QED
    BY <2>2, <2>3
<1>14. LiveRunsAreHeld'
  <2>1. SUFFICES ASSUME NEW u \in Runs, Live(u)
                 PROVE  \/ insts'[runs[u].inst].run = u /\ ~runs[u].cancelled
                        \/ /\ insts'[runs[u].inst].run = 0 /\ runs[u].cancelled
                           /\ \E h \in Goroutines : /\ insts'[runs[u].inst].holder = h
                                                    /\ gos'[h].pc = "drain" /\ gos'[h].run = u
    BY <1>1 DEF LiveRunsAreHeld, Live, At
  <2>2. runs[u].inst \in Objs
    BY <2>1 DEF IInv, Types, RunRec, UnusedRests, Objs
  <2>3. \/ insts[runs[u].inst].run = u /\ ~runs[u].cancelled
        \/ /\ insts[runs[u].inst].run = 0 /\ runs[u].cancelled
           /\ \E h \in Goroutines : /\ insts[runs[u].inst].holder = h
                                    /\ gos[h].pc = "drain" /\ gos[h].run = u
    BY <2>1 DEF IInv, LiveRunsAreHeld, At
  <2> QED
    BY <1>1, <1>2, <1>3, <1>4, <2>2, <2>3 DEF At
<1>15. StillToHalt'
  <2>1. SUFFICES ASSUME NEW u \in Runs, Live(u), runs[u].inst \in list, ~runs[u].late
                 PROVE  gos'[runs[u].inst].pc \in {"lock", "locked", "drain"}
    BY <1>1 DEF StillToHalt, Live
  <2>2. runs[u].inst \in Goroutines /\ gos[runs[u].inst].pc \in {"lock", "locked", "drain"}
    BY <2>1 DEF IInv, Types, StillToHalt, Goroutines
  <2> QED
    BY <1>1, <1>3, <2>2 DEF At
<1> QED
  BY <1>5, <1>6, <1>7, <1>9, <1>10, <1>11, <1>12, <1>13, <1>14, <1>15 DEF IInv

-----------------------------------------------------------------------------
(***************************************************************************)
(* Under in.mu: the run is given up and waited for, or a new one starts.   *)
(***************************************************************************)
LEMMA StopsStep ==
  ASSUME IInv, NEW g \in Goroutines, Stops(g)
  PROVE  IInv'
<1> USE ManagerAssumption
<1> DEFINE i == gos[g].inst
           run == insts[i].run
           go == WithRun(gos[g], run, "drain")
<1>1. /\ At(g, "locked") /\ insts' = [insts EXCEPT ![i].run = 0]
      /\ runs' = IF run = 0 THEN runs ELSE [runs EXCEPT ![run].cancelled = TRUE]
      /\ gos' = [gos EXCEPT ![g].run = run, ![g].pc = "drain"]
      /\ UNCHANGED <<instances, display, files, list, mgr, used>>
  BY DEF Stops
<1>2. /\ gos[g] \in GoRec /\ gos[g].id \in Ids /\ i \in Objs /\ insts[i].id \in Ids
      /\ insts[i].holder = g /\ insts[i] \in InstRec /\ run \in 0..MaxRuns
      /\ g \in Objs => gos[g].op = "halt" /\ i = g
  BY <1>1, GoKnown DEF At, Inside, InsidePc, InstRec
<1>3. /\ gos' \in [Goroutines -> GoRec] /\ gos'[g].pc = "drain" /\ gos'[g].inst = i
      /\ gos'[g].run = run /\ gos'[g].id = gos[g].id /\ gos'[g].op = gos[g].op
      /\ \A h \in Goroutines : h # g => gos'[h] = gos[h]
  <2>1. gos' = [gos EXCEPT ![g] = go]
    <3>1. GoesTo(g, go)
      BY <1>1, ToPcs
    <3> QED
      BY <3>1 DEF GoesTo
  <2>2. "drain" \in Pc
    BY DEF Pc
  <2>3. Same(go, gos[g]) /\ go.pc = "drain" /\ go.run = run
    BY <1>2, <2>2, ToPcAndRun
  <2> HIDE DEF go
  <2> QED
    BY <2>1, <2>3 DEF Same, IInv, Types
<1> HIDE DEF i
<1>4. /\ insts' \in [Objs -> InstRec] /\ insts'[i].run = 0
      /\ \A o \in Objs : /\ insts'[o].id = insts[o].id /\ insts'[o].holder = insts[o].holder
                         /\ o # i => insts'[o] = insts[o]
  BY <1>1, <1>2 DEF IInv, Types, InstRec
<1>5. run # 0 => run \in Runs /\ runs[run].inst = i
  BY <1>2 DEF Runs, IInv, RunIsOwn
<1>6. /\ runs' \in [Runs -> RunRec]
      /\ run # 0 => runs'[run].cancelled
      /\ \A u \in Runs : /\ runs'[u].inst = runs[u].inst /\ runs'[u].late = runs[u].late
                         /\ runs'[u].proc = runs[u].proc /\ (u # run => runs'[u] = runs[u])
  <2>1. CASE run = 0
    BY <1>1, <2>1 DEF IInv, Types
  <2>2. CASE run # 0
    <3>1. runs[run] \in RunRec /\ run \in Runs /\ runs' = [runs EXCEPT ![run].cancelled = TRUE]
      BY <1>1, <1>5, <2>2 DEF IInv, Types
    <3>2. /\ [runs[run] EXCEPT !.cancelled = TRUE] \in RunRec
          /\ [runs[run] EXCEPT !.cancelled = TRUE].inst = runs[run].inst
          /\ [runs[run] EXCEPT !.cancelled = TRUE].late = runs[run].late
          /\ [runs[run] EXCEPT !.cancelled = TRUE].proc = runs[run].proc
          /\ [runs[run] EXCEPT !.cancelled = TRUE].cancelled
      BY <3>1 DEF RunRec
    <3> HIDE DEF run
    <3> QED
      BY <3>1, <3>2 DEF IInv, Types
  <2> QED
    BY <2>1, <2>2
<1>7. \A u \in Runs : runs'[u].inst \in 0..MaxObjs /\ (Live(u)' <=> Live(u))
  BY <1>6 DEF Live, RunRec
<1> HIDE DEF run
<1>8. Types'
  BY <1>1, <1>3, <1>4, <1>6 DEF IInv, Types
<1>9. NamedGos'
  BY <1>2, <1>3, <1>4 DEF IInv, NamedGos, InsidePc
<1>10. NamedInsts'
  BY <1>1, <1>4, <1>6, <1>7 DEF IInv, Types, NamedInsts, Objs
<1>11. HolderIsInside' /\ InsideHolds'
  <2>1. Inside(g) /\ gos'[g].pc \in InsidePc /\ gos'[g].inst = gos[g].inst
    BY <1>1, <1>3 DEF At, Inside, InsidePc, i
  <2>2. HolderIsInside'
    BY <1>3, <1>4, <2>1 DEF IInv, Types, InstRec, HolderIsInside, Inside
  <2>3. InsideHolds'
    BY <1>3, <1>4, <2>1 DEF IInv, InsideHolds, NamedGos, Inside
  <2> QED
    BY <2>2, <2>3
<1>12. \A o \in Objs : o # i /\ insts[o].run # 0 => insts[o].run # run /\ insts[o].run \in Runs
  BY <1>5 DEF IInv, Types, InstRec, RunIsOwn, Runs
<1>13. RunIsOwn'
  BY <1>4, <1>6, <1>12 DEF IInv, RunIsOwn
<1>14. UnusedRests'
  BY <1>6, <1>7 DEF IInv, UnusedRests
<1>15. NothingYet' /\ Starters'
  <2>1. NothingYet'
    <3>1. \A h \in Goroutines : h # g /\ gos'[h].pc \in {"drain", "start", "launch"} =>
            gos[h].inst \in Objs /\ insts[gos[h].inst].run = 0
      BY <1>3 DEF IInv, NamedGos, InsidePc, NothingYet
    <3> QED
      BY <1>3, <1>4, <3>1 DEF NothingYet
  <2>2. Starters'
    BY <1>3 DEF IInv, Starters
  <2> QED
    BY <2>1, <2>2
<1>16. Halters' /\ Phases'
  <2>1. \A o \in Objs : o \in Goroutines
    BY DEF Goroutines
  <2>2. Halters'
    BY <1>2, <1>3, <2>1 DEF IInv, Halters, i
  <2>3. Phases'
    BY <1>1, <1>3, <2>1 DEF IInv, Phases, At
  <2> QED
    BY <2>2, <2>3
<1>17. LiveRunsAreHeld'
  <2>1. SUFFICES ASSUME NEW u \in Runs, Live(u)
                 PROVE  \/ insts'[runs[u].inst].run = u /\ ~runs'[u].cancelled
                        \/ /\ insts'[runs[u].inst].run = 0 /\ runs'[u].cancelled
                           /\ \E h \in Goroutines : /\ insts'[runs[u].inst].holder = h
                                                    /\ gos'[h].pc = "drain" /\ gos'[h].run = u
    BY <1>6, <1>7 DEF LiveRunsAreHeld, At
  <2>2. runs[u].inst \in Objs
    BY <2>1 DEF IInv, Types, RunRec, UnusedRests, Objs
  <2>3. \/ insts[runs[u].inst].run = u /\ ~runs[u].cancelled
        \/ /\ insts[runs[u].inst].run = 0 /\ runs[u].cancelled
           /\ \E h \in Goroutines : /\ insts[runs[u].inst].holder = h
                                    /\ gos[h].pc = "drain" /\ gos[h].run = u
    BY <2>1 DEF IInv, LiveRunsAreHeld, At
  <2>4. CASE runs[u].inst = i
    <3>1. insts[i].run = u
      BY <1>1, <1>2, <2>3, <2>4 DEF At
    <3>2. u = run /\ run # 0
      BY <3>1 DEF run, Runs
    <3> QED
      BY <1>2, <1>3, <1>4, <1>6, <2>4, <3>2
  <2>5. CASE runs[u].inst # i
    <3>1. u # run
      BY <1>5, <2>5 DEF Runs
    <3> QED
      BY <1>1, <1>3, <1>4, <1>6, <2>2, <2>3, <2>5, <3>1 DEF At
  <2> QED
    BY <2>4, <2>5
<1>18. StillToHalt'
  <2>1. SUFFICES ASSUME NEW u \in Runs, Live(u)', runs'[u].inst \in list', ~runs'[u].late
                 PROVE  gos'[runs'[u].inst].pc \in {"lock", "locked", "drain"}
    BY DEF StillToHalt
  <2>3. Live(u) /\ runs'[u].inst = runs[u].inst /\ runs[u].inst \in list /\ ~runs[u].late
    BY <1>1, <1>6, <1>7, <2>1
  <2>2. runs[u].inst \in Goroutines /\ gos[runs[u].inst].pc \in {"lock", "locked", "drain"}
    BY <2>3 DEF IInv, Types, StillToHalt, Goroutines
  <2> QED
    BY <1>3, <2>2, <2>3
<1> QED
  BY <1>8, <1>9, <1>10, <1>11, <1>13, <1>14, <1>15, <1>16, <1>17, <1>18 DEF IInv

LEMMA LaunchesStep ==
  ASSUME IInv, NEW g \in Goroutines, Launches(g)
  PROVE  IInv'
<1> USE ManagerAssumption
<1> DEFINE i == gos[g].inst
<1>1. PICK u \in Runs :
        /\ runs[u].inst = 0
        /\ runs' = [runs EXCEPT ![u] = [inst |-> i, cancelled |-> FALSE, late |-> Passed(i),
                                        proc |-> [k \in Kinds |-> "check"]]]
        /\ insts' = [insts EXCEPT ![i].run = u]
        /\ gos' = [gos EXCEPT ![g].run = u, ![g].pc = "unlock"]
  BY DEF Launches
<1> DEFINE new == [inst |-> i, cancelled |-> FALSE, late |-> Passed(i),
                   proc |-> [k \in Kinds |-> "check"]]
           go == WithRun(gos[g], u, "unlock")
<1>2. /\ At(g, "launch") /\ UNCHANGED <<instances, display, files, list, mgr, used>>
  BY DEF Launches
<1>3. /\ gos[g] \in GoRec /\ gos[g].id \in Ids /\ i \in Objs /\ insts[i].id \in Ids
      /\ insts[i].holder = g /\ insts[i].run = 0 /\ g \notin Objs /\ u \in 0..MaxRuns /\ u # 0
      /\ insts[i] \in InstRec
  BY <1>2, GoKnown DEF At, Inside, InsidePc, Runs, IInv, NothingYet, Halters
<1>4. /\ gos' \in [Goroutines -> GoRec] /\ gos'[g].pc = "unlock" /\ gos'[g].inst = i
      /\ gos'[g].id = gos[g].id /\ gos'[g].op = gos[g].op
      /\ \A h \in Goroutines : h # g => gos'[h] = gos[h]
  <2>1. gos' = [gos EXCEPT ![g] = go]
    <3>1. GoesTo(g, go)
      BY <1>1, ToPcs
    <3> QED
      BY <3>1 DEF GoesTo
  <2>2. "unlock" \in Pc
    BY DEF Pc
  <2>3. Same(go, gos[g]) /\ go.pc = "unlock"
    BY <1>3, <2>2, ToPcAndRun
  <2> HIDE DEF go
  <2> QED
    BY <2>1, <2>3 DEF Same, IInv, Types
<1>5. /\ runs' \in [Runs -> RunRec] /\ runs'[u].inst = i /\ ~runs'[u].cancelled
      /\ runs'[u].late = Passed(i) /\ \A v \in Runs : v # u => runs'[v] = runs[v]
  <2>1. "check" \in ProcState /\ Passed(i) \in BOOLEAN /\ i \in 0..MaxObjs
    BY <1>3 DEF ProcState, Passed, Objs
  <2>2. new \in RunRec /\ new.inst = i /\ new.cancelled = FALSE /\ new.late = Passed(i)
    <3> HIDE DEF i
    <3> QED
      BY <2>1 DEF RunRec
  <2>3. runs' = [runs EXCEPT ![u] = new]
    BY <1>1
  <2> HIDE DEF new
  <2> QED
    BY <2>2, <2>3 DEF IInv, Types
<1> HIDE DEF i
<1>6. /\ insts' \in [Objs -> InstRec] /\ insts'[i].run = u
      /\ \A o \in Objs : /\ insts'[o].id = insts[o].id /\ insts'[o].holder = insts[o].holder
                         /\ o # i => insts'[o] = insts[o]
  BY <1>1, <1>3 DEF IInv, Types, InstRec
<1>7. \A v \in Runs : v # u => (Live(v)' <=> Live(v))
  BY <1>5 DEF Live
<1>8. Types'
  BY <1>2, <1>4, <1>5, <1>6 DEF IInv, Types
<1>9. NamedGos'
  BY <1>3, <1>4, <1>6 DEF IInv, NamedGos, InsidePc
<1>10. NamedInsts'
  <2>1. \A id \in Ids : instances'[id] # 0 => insts'[instances'[id]].id \in Ids
    BY <1>2, <1>6 DEF IInv, Types, NamedInsts, Objs
  <2>2. \A v \in Runs : v # u /\ runs[v].inst # 0 => insts'[runs[v].inst].id \in Ids
    BY <1>6 DEF IInv, Types, RunRec, NamedInsts, Objs
  <2> QED
    BY <1>3, <1>5, <1>6, <2>1, <2>2 DEF NamedInsts
<1>11. HolderIsInside' /\ InsideHolds'
  <2>1. Inside(g) /\ gos'[g].pc \in InsidePc /\ gos'[g].inst = gos[g].inst
    BY <1>2, <1>4 DEF At, Inside, InsidePc, i
  <2>2. HolderIsInside'
    BY <1>4, <1>6, <2>1 DEF IInv, Types, InstRec, HolderIsInside, Inside
  <2>3. InsideHolds'
    BY <1>4, <1>6, <2>1 DEF IInv, InsideHolds, NamedGos, Inside
  <2> QED
    BY <2>2, <2>3
<1>12. RunIsOwn'
  <2>1. SUFFICES ASSUME NEW o \in Objs, insts'[o].run # 0
                 PROVE  runs'[insts'[o].run].inst = o /\ ~runs'[insts'[o].run].cancelled
    BY DEF RunIsOwn
  <2>2. CASE o = i
    BY <1>5, <1>6, <2>2
  <2>3. CASE o # i
    <3>1. insts'[o] = insts[o] /\ insts[o].run # 0
      BY <1>6, <2>1, <2>3
    <3>2. runs[insts[o].run].inst = o /\ ~runs[insts[o].run].cancelled
      BY <3>1 DEF IInv, RunIsOwn
    <3>3. insts[o].run \in Runs /\ o # 0
      <4>1. insts[o] \in InstRec
        BY DEF IInv, Types
      <4> QED
        BY <3>1, <4>1 DEF InstRec, Runs, Objs
    <3> QED
      BY <1>1, <1>5, <3>1, <3>2, <3>3
  <2> QED
    BY <2>2, <2>3
<1>13. UnusedRests'
  BY <1>3, <1>5, <1>7 DEF IInv, UnusedRests, Objs
<1>14. NothingYet' /\ Starters'
  <2>1. SUFFICES ASSUME NEW h \in Goroutines, gos'[h].pc \in {"drain", "start", "launch"}
                 PROVE  /\ insts'[gos'[h].inst].run = 0
                        /\ gos'[h].pc # "drain" => gos'[h].op \in {"ensure", "restart"}
    BY DEF NothingYet, Starters
  <2>2. /\ h # g /\ gos'[h] = gos[h] /\ Inside(h) /\ insts[gos[h].inst].run = 0
        /\ gos[h].pc # "drain" => gos[h].op \in {"ensure", "restart"}
    BY <1>4, <2>1 DEF IInv, NothingYet, Starters, Inside, InsidePc
  <2>3. gos[h].inst \in Objs /\ gos[h].inst # i
    BY <1>3, <2>2 DEF IInv, InsideHolds, NamedGos, Inside
  <2> QED
    BY <1>6, <2>2, <2>3
<1>15. Halters' /\ Phases'
  <2>1. \A o \in Objs : o \in Goroutines /\ o # g
    BY <1>3 DEF Goroutines
  <2> QED
    BY <1>2, <1>4, <2>1 DEF IInv, Halters, Phases, At
\* Whoever launches is alone inside, so nothing of i runs.
<1>16. \A v \in Runs : Live(v) => runs[v].inst \in Objs /\ runs[v].inst # i /\ v # u
  <2>1. SUFFICES ASSUME NEW v \in Runs, Live(v) PROVE runs[v].inst \in Objs /\ runs[v].inst # i /\ v # u
    OBVIOUS
  <2>2. runs[v].inst # 0 /\ runs[v].inst \in Objs
    BY <2>1 DEF IInv, Types, RunRec, UnusedRests, Objs
  <2>3. runs[v].inst # i
    BY <1>2, <1>3, <2>1 DEF IInv, LiveRunsAreHeld, At, Runs
  <2> QED
    BY <1>1, <2>2, <2>3
<1>17. LiveRunsAreHeld'
  <2>1. SUFFICES ASSUME NEW v \in Runs, Live(v)'
                 PROVE  \/ insts'[runs'[v].inst].run = v /\ ~runs'[v].cancelled
                        \/ /\ insts'[runs'[v].inst].run = 0 /\ runs'[v].cancelled
                           /\ \E h \in Goroutines : /\ insts'[runs'[v].inst].holder = h
                                                    /\ gos'[h].pc = "drain" /\ gos'[h].run = v
    BY DEF LiveRunsAreHeld, At
  <2>2. CASE v = u
    BY <1>5, <1>6, <2>2
  <2>3. CASE v # u
    <3>1. Live(v) /\ runs'[v] = runs[v] /\ runs[v].inst \in Objs /\ runs[v].inst # i
      BY <1>5, <1>7, <1>16, <2>1, <2>3
    <3>2. \/ insts[runs[v].inst].run = v /\ ~runs[v].cancelled
          \/ /\ insts[runs[v].inst].run = 0 /\ runs[v].cancelled
             /\ \E h \in Goroutines : /\ insts[runs[v].inst].holder = h
                                      /\ gos[h].pc = "drain" /\ gos[h].run = v
      BY <3>1 DEF IInv, LiveRunsAreHeld, At
    <3> QED
      BY <1>2, <1>4, <1>6, <3>1, <3>2 DEF At
  <2> QED
    BY <2>2, <2>3
<1>18. StillToHalt'
  <2>1. SUFFICES ASSUME NEW v \in Runs, Live(v)', runs'[v].inst \in list, ~runs'[v].late
                 PROVE  gos'[runs'[v].inst].pc \in {"lock", "locked", "drain"}
    BY <1>2 DEF StillToHalt
  <2>2. CASE v = u
    <3>1. i \in list /\ ~At(i, "idle") /\ i \in Goroutines /\ i # g
      BY <1>3, <1>5, <2>1, <2>2 DEF Passed, Goroutines
    <3>2. gos[i].pc \in {"lock", "locked", "drain", "unlock"} /\ gos[i].inst = i
      BY <1>3, <3>1 DEF IInv, Halters, At
    <3>3. ~Inside(i)
      BY <1>3, <3>1, <3>2 DEF IInv, InsideHolds
    <3> QED
      BY <1>4, <1>5, <2>2, <3>1, <3>2, <3>3 DEF Inside, InsidePc
  <2>3. CASE v # u
    <3>1. runs'[v] = runs[v] /\ Live(v)
      BY <1>5, <1>7, <2>1, <2>3
    <3>2. runs[v].inst \in Objs /\ gos[runs[v].inst].pc \in {"lock", "locked", "drain"}
      BY <1>16, <2>1, <3>1 DEF IInv, StillToHalt
    <3> QED
      BY <1>3, <1>4, <3>1, <3>2 DEF Goroutines
  <2> QED
    BY <2>2, <2>3
<1> QED
  BY <1>8, <1>9, <1>10, <1>11, <1>12, <1>13, <1>14, <1>15, <1>17, <1>18 DEF IInv

-----------------------------------------------------------------------------
(***************************************************************************)
(* The goroutines of processes: nothing that has ended starts again.       *)
(***************************************************************************)
OnlyProcs ==
  \A u \in Runs : /\ runs'[u].inst = runs[u].inst /\ runs'[u].cancelled = runs[u].cancelled
                  /\ runs'[u].late = runs[u].late
                  /\ Live(u)' => Live(u)

LEMMA ProcsKeep ==
  ASSUME IInv, runs' \in [Runs -> RunRec], OnlyProcs, display' \subseteq Ids,
         used' \in [{"req", "crash"} -> Nat],
         UNCHANGED <<instances, insts, files, gos, list, mgr>>
  PROVE  IInv'
<1>1. Types'
  BY DEF IInv, Types
<1>2. NamedGos' /\ HolderIsInside' /\ InsideHolds' /\ NothingYet' /\ Starters' /\ Halters' /\ Phases'
  BY DEF IInv, NamedGos, HolderIsInside, InsideHolds, NothingYet, Starters, Halters, Phases, Inside, At
<1>3. NamedInsts'
  BY DEF IInv, NamedInsts, OnlyProcs
<1>4. RunIsOwn'
  <2>1. \A i \in Objs : insts[i].run # 0 => insts[i].run \in Runs
    BY DEF IInv, Types, InstRec, Runs
  <2> QED
    BY <2>1 DEF IInv, RunIsOwn, OnlyProcs
<1>5. UnusedRests'
  BY DEF IInv, UnusedRests, OnlyProcs
<1>6. StillToHalt'
  <2>1. SUFFICES ASSUME NEW u \in Runs, Live(u)', runs'[u].inst \in list', ~runs'[u].late
                 PROVE  gos'[runs'[u].inst].pc \in {"lock", "locked", "drain"}
    BY DEF StillToHalt
  <2>2. Live(u) /\ runs[u].inst \in list /\ ~runs[u].late /\ runs'[u].inst = runs[u].inst
    BY <2>1 DEF OnlyProcs
  <2> QED
    BY <2>2 DEF IInv, StillToHalt
<1>7. LiveRunsAreHeld'
  <2>1. SUFFICES ASSUME NEW u \in Runs, Live(u)'
                 PROVE  \/ insts'[runs'[u].inst].run = u /\ ~runs'[u].cancelled
                        \/ /\ insts'[runs'[u].inst].run = 0 /\ runs'[u].cancelled
                           /\ \E h \in Goroutines : /\ insts'[runs'[u].inst].holder = h
                                                    /\ gos'[h].pc = "drain" /\ gos'[h].run = u
    BY DEF LiveRunsAreHeld, At
  <2>2. /\ Live(u) /\ runs'[u].inst = runs[u].inst /\ runs'[u].cancelled = runs[u].cancelled
    BY <2>1 DEF OnlyProcs
  <2>3. \/ insts[runs[u].inst].run = u /\ ~runs[u].cancelled
        \/ /\ insts[runs[u].inst].run = 0 /\ runs[u].cancelled
           /\ \E h \in Goroutines : /\ insts[runs[u].inst].holder = h
                                    /\ gos[h].pc = "drain" /\ gos[h].run = u
    BY <2>2 DEF IInv, LiveRunsAreHeld, At
  <2> QED
    BY <2>2, <2>3
<1> QED
  BY <1>1, <1>2, <1>3, <1>4, <1>5, <1>6, <1>7 DEF IInv

LEMMA ProcMoves ==
  ASSUME IInv, NEW u \in Runs, NEW k \in Kinds, NEW to \in ProcState,
         runs[u].proc[k] # "done", ProcGoes(u, k, to)
  PROVE  runs' \in [Runs -> RunRec] /\ OnlyProcs
<1> DEFINE procs == [runs[u].proc EXCEPT ![k] = to]
           run == [runs[u] EXCEPT !.proc = procs]
<1>1. runs[u] \in RunRec /\ procs \in [Kinds -> ProcState]
  BY DEF IInv, Types, RunRec
<1>2. runs' = [runs EXCEPT ![u] = run]
  BY DEF ProcGoes, IInv, Types, RunRec
<1> HIDE DEF procs
<1>3. /\ run \in RunRec /\ run.inst = runs[u].inst /\ run.cancelled = runs[u].cancelled
      /\ run.late = runs[u].late
  BY <1>1 DEF RunRec
<1> HIDE DEF run
<1>4. /\ runs' \in [Runs -> RunRec] /\ runs'[u] = run
      /\ \A v \in Runs : v # u => runs'[v] = runs[v]
  BY <1>2, <1>3 DEF IInv, Types
<1>5. Live(u)
  BY DEF Live
<1>6. \A v \in Runs : Live(v)' => Live(v)
  BY <1>4, <1>5 DEF Live
<1> QED
  BY <1>3, <1>4, <1>6 DEF OnlyProcs

\* Whatever runs belongs to an account.
LEMMA LiveIsNamed ==
  ASSUME IInv, NEW u \in Runs, NEW k \in Kinds, runs[u].proc[k] # "done"
  PROVE  IdOf(u) \in Ids
<1>1. runs[u].inst # 0
  BY DEF IInv, UnusedRests, Live
<1> QED
  BY <1>1 DEF IInv, NamedInsts, IdOf

LEMMA ProcStepKeeps ==
  ASSUME IInv, NEW u \in Runs, NEW k \in Kinds, ProcStep(u, k) \/ SkipsRound(u, k) \/ Dies(u, k)
  PROVE  IInv'
<1>1. UNCHANGED <<instances, insts, files, gos, list, mgr>>
  BY DEF ProcStep, Checks, Starts, Terminates, Resumes, SkipsRound, Dies, Other
<1>2. display' \subseteq Ids
  BY DEF ProcStep, Checks, Starts, Terminates, Resumes, SkipsRound, Dies, IInv, Types
<1>3. used' \in [{"req", "crash"} -> Nat]
  BY DEF ProcStep, Checks, Starts, Terminates, Resumes, SkipsRound, Dies, Spend, IInv, Types
<1>4. runs[u].proc[k] # "done" /\ \E to \in ProcState : ProcGoes(u, k, to)
  BY DEF ProcStep, Checks, Starts, Terminates, Resumes, NextRound, SkipsRound, Dies, ProcState
<1> QED
  BY <1>1, <1>2, <1>3, <1>4, ProcMoves, ProcsKeep

LEMMA DisplaysStep ==
  ASSUME IInv, NEW u \in Runs, Displays(u)
  PROVE  IInv'
<1>1. display' = display \cup {IdOf(u)} /\ UNCHANGED <<instances, insts, files, gos, list, mgr, runs, used>>
  BY DEF Displays, Other
<1>2. IdOf(u) \in Ids
  BY LiveIsNamed DEF Displays, Kinds
<1>3. display' \subseteq Ids /\ runs' \in [Runs -> RunRec] /\ OnlyProcs
  BY <1>1, <1>2 DEF IInv, Types, OnlyProcs, Live
<1> QED
  BY <1>1, <1>3, ProcsKeep DEF IInv, Types

-----------------------------------------------------------------------------
(***************************************************************************)
(* Shutdown(): from here on, whatever it found is still to be halted.      *)
(***************************************************************************)
LEMMA ShutsDownStep ==
  ASSUME IInv, ShutsDown
  PROVE  IInv'
<1> USE ManagerAssumption
<1> DEFINE L == {instances[id] : id \in Ids} \ {0}
           halt(i) == [NoGo EXCEPT !.op = "halt", !.id = insts[i].id, !.inst = i, !.pc = "lock"]
<1>1. /\ mgr = "serving" /\ mgr' = "stopping" /\ list' = L
      /\ gos' = [g \in Goroutines |-> IF g \in L THEN halt(g) ELSE gos[g]]
      /\ UNCHANGED <<instances, insts, runs, display, files, used>>
  BY DEF ShutsDown, ToStop
<1>2. L \subseteq Objs /\ \A i \in L : insts[i].id \in Ids
  BY DEF IInv, Types, NamedInsts, Objs
<1>3. \A i \in L : /\ halt(i) \in GoRec /\ halt(i).op = "halt" /\ halt(i).id = insts[i].id
                   /\ halt(i).inst = i /\ halt(i).pc = "lock"
  <2>1. NoGo \in GoRec
    BY DEF NoGo, GoRec, Pc
  <2>2. \A i \in L : i \in 0..MaxObjs /\ insts[i].id \in Ids \cup {None}
    BY <1>2 DEF Objs
  <2> HIDE DEF L
  <2> QED
    BY <2>1, <2>2 DEF GoRec, Operations, Pc
<1>4. \A i \in Objs : gos[i].pc = "idle" /\ i \in Goroutines
  BY <1>1 DEF IInv, Phases, At, Goroutines
<1> HIDE DEF L, halt
<1>5. /\ gos' \in [Goroutines -> GoRec]
      /\ \A g \in Goroutines : g \notin L => gos'[g] = gos[g]
      /\ \A i \in L : /\ gos'[i].op = "halt" /\ gos'[i].id \in Ids /\ gos'[i].inst = i
                      /\ gos'[i].pc = "lock" /\ i \in Goroutines
  BY <1>1, <1>2, <1>3, <1>4 DEF IInv, Types
<1>6. Types'
  BY <1>1, <1>2, <1>5 DEF IInv, Types
<1>7. NamedGos'
  BY <1>1, <1>2, <1>5 DEF IInv, NamedGos
<1>8. \A g \in Goroutines : Inside(g) \/ gos'[g].pc \in InsidePc => g \notin L /\ gos'[g] = gos[g]
  BY <1>2, <1>4, <1>5 DEF Inside, InsidePc
<1>9. HolderIsInside'
  <2>1. SUFFICES ASSUME NEW i \in Objs, insts[i].holder # None
                 PROVE  gos'[insts[i].holder].pc \in InsidePc /\ gos'[insts[i].holder].inst = i
    BY <1>1 DEF HolderIsInside, Inside
  <2>2. insts[i].holder \in Goroutines /\ Inside(insts[i].holder) /\ gos[insts[i].holder].inst = i
    BY <2>1 DEF IInv, Types, InstRec, HolderIsInside
  <2> QED
    BY <1>8, <2>2 DEF Inside
<1>10. InsideHolds' /\ NothingYet' /\ Starters'
  <2>1. InsideHolds'
    BY <1>1, <1>8 DEF IInv, InsideHolds, Inside
  <2>2. \A g \in Goroutines : gos'[g].pc \in {"drain", "start", "launch"} => gos'[g] = gos[g]
    BY <1>8 DEF InsidePc
  <2> QED
    BY <1>1, <2>1, <2>2 DEF IInv, NothingYet, Starters
<1>11. NamedInsts' /\ RunIsOwn' /\ UnusedRests'
  BY <1>1 DEF IInv, NamedInsts, RunIsOwn, UnusedRests, Live
<1>12. Halters' /\ Phases'
  BY <1>1, <1>4, <1>5 DEF IInv, Halters, Phases
<1>13. LiveRunsAreHeld'
  <2>1. SUFFICES ASSUME NEW u \in Runs, Live(u)
                 PROVE  \/ insts[runs[u].inst].run = u /\ ~runs[u].cancelled
                        \/ /\ insts[runs[u].inst].run = 0 /\ runs[u].cancelled
                           /\ \E h \in Goroutines : /\ insts[runs[u].inst].holder = h
                                                    /\ gos'[h].pc = "drain" /\ gos'[h].run = u
    BY <1>1 DEF LiveRunsAreHeld, Live, At
  <2>2. \/ insts[runs[u].inst].run = u /\ ~runs[u].cancelled
        \/ /\ insts[runs[u].inst].run = 0 /\ runs[u].cancelled
           /\ \E h \in Goroutines : /\ insts[runs[u].inst].holder = h
                                    /\ gos[h].pc = "drain" /\ gos[h].run = u
    BY <2>1 DEF IInv, LiveRunsAreHeld, At
  <2> QED
    BY <1>8, <2>2 DEF Inside, InsidePc
<1>14. StillToHalt'
  BY <1>1, <1>5 DEF StillToHalt
<1> QED
  BY <1>6, <1>7, <1>9, <1>10, <1>11, <1>12, <1>13, <1>14 DEF IInv

LEMMA StoppedStep ==
  ASSUME IInv, Stopped
  PROVE  IInv'
<1>1. /\ mgr = "stopping" /\ (\A i \in Objs : At(i, "idle")) /\ mgr' = "stopped"
      /\ UNCHANGED <<instances, insts, runs, display, files, gos, list, used>>
  BY DEF Stopped
<1>2. Types' /\ NamedGos' /\ NamedInsts' /\ HolderIsInside' /\ InsideHolds' /\ RunIsOwn'
  BY <1>1 DEF IInv, Types, NamedGos, NamedInsts, HolderIsInside, InsideHolds, RunIsOwn, Inside
<1>3. UnusedRests' /\ NothingYet' /\ Starters' /\ Halters' /\ Phases' /\ StillToHalt' /\ LiveRunsAreHeld'
  BY <1>1 DEF IInv, UnusedRests, NothingYet, Starters, Halters, Phases, StillToHalt, LiveRunsAreHeld,
              Live, At
<1> QED
  BY <1>2, <1>3 DEF IInv

-----------------------------------------------------------------------------
LEMMA InitIInv == Init => IInv
<1> SUFFICES ASSUME Init PROVE IInv
  OBVIOUS
<1> USE ManagerAssumption DEF Init
<1>1. insts \in [Objs -> InstRec] /\ \A i \in Objs : insts[i].holder = None /\ insts[i].run = 0
  BY DEF NoInst, InstRec
<1>2. /\ runs \in [Runs -> RunRec]
      /\ \A u \in Runs : runs[u].inst = 0 /\ \A k \in Kinds : runs[u].proc[k] = "done"
  <2>1. NoRun \in RunRec /\ NoRun.inst = 0 /\ \A k \in Kinds : NoRun.proc[k] = "done"
    <3>1. [k \in Kinds |-> "done"] \in [Kinds -> ProcState]
      BY DEF ProcState
    <3> QED
      BY <3>1 DEF NoRun, RunRec
  <2> QED
    BY <2>1
<1>3. gos \in [Goroutines -> GoRec] /\ \A g \in Goroutines : gos[g].pc = "idle" /\ gos[g].op = None
  <2>1. NoGo \in GoRec /\ NoGo.pc = "idle" /\ NoGo.op = None
    BY DEF NoGo, GoRec, Pc
  <2> QED
    BY <2>1
<1>4. Types
  BY <1>1, <1>2, <1>3 DEF Types
<1>5. NamedGos /\ NamedInsts /\ HolderIsInside /\ InsideHolds
  BY <1>1, <1>2, <1>3 DEF NamedGos, NamedInsts, HolderIsInside, InsideHolds, Inside, InsidePc
<1>6. RunIsOwn /\ UnusedRests /\ NothingYet /\ Starters
  BY <1>1, <1>2, <1>3 DEF RunIsOwn, UnusedRests, NothingYet, Starters, Live
<1>7. Halters /\ Phases
  BY <1>3 DEF Halters, Phases, At, Goroutines
<1>8. LiveRunsAreHeld /\ StillToHalt
  BY <1>2 DEF LiveRunsAreHeld, StillToHalt, Live
<1> QED
  BY <1>4, <1>5, <1>6, <1>7, <1>8 DEF IInv

LEMMA NextIInv == IInv /\ [Next]_vars => IInv'
<1> SUFFICES ASSUME IInv, [Next]_vars PROVE IInv'
  OBVIOUS
<1>1. CASE \E g \in Requests, op \in Operations, id \in Ids : Begins(g, op, id)
  BY <1>1, BeginsStep
<1>2. ASSUME NEW g \in Goroutines, GoStep(g) PROVE IInv'
  <2>1. CASE Lookup(g)
    BY <2>1, LookupStep
  <2>2. CASE Locks(g)
    BY <2>2, LocksStep
  <2>3. CASE Decides(g)
    BY <2>3, DecidesStep
  <2>4. CASE Stops(g)
    BY <2>4, StopsStep
  <2>5. CASE AfterStop(g)
    BY <2>5, AfterStopStep
  <2>6. CASE Prepares(g)
    BY <2>6, PreparesStep
  <2>7. CASE Launches(g)
    BY <2>7, LaunchesStep
  <2>8. CASE Unlocks(g)
    BY <2>8, UnlocksStep
  <2>9. CASE Answers(g) \/ TimesOut(g) \/ RemovesFiles(g)
    BY <2>9, WaitStep
  <2>10. CASE Forgets(g)
    BY <2>10, ForgetsStep
  <2> QED
    BY <1>2, <2>1, <2>2, <2>3, <2>4, <2>5, <2>6, <2>7, <2>8, <2>9, <2>10 DEF GoStep
<1>3. CASE \E u \in Runs, k \in Kinds : ProcStep(u, k) \/ SkipsRound(u, k) \/ Dies(u, k)
  BY <1>3, ProcStepKeeps
<1>4. CASE \E u \in Runs : Displays(u)
  BY <1>4, DisplaysStep
<1>5. CASE ShutsDown \/ Stopped
  BY <1>5, ShutsDownStep, StoppedStep
<1>6. CASE UNCHANGED vars
  <2>1. /\ UNCHANGED <<instances, insts, files, gos, list, mgr>> /\ runs' = runs
        /\ display' = display /\ used' = used
    BY <1>6 DEF vars
  <2>2. runs' \in [Runs -> RunRec] /\ OnlyProcs
    BY <2>1 DEF IInv, Types, OnlyProcs, Live
  <2> QED
    BY <2>1, <2>2, ProcsKeep DEF IInv, Types
<1> QED
  BY <1>1, <1>2, <1>3, <1>4, <1>5, <1>6 DEF Next

LEMMA IInvHolds == Spec => []IInv
BY InitIInv, NextIInv, PTL DEF Spec

(***************************************************************************)
(* Every variable of the manager has its type.                             *)
(***************************************************************************)
THEOREM ManagerTypes == Spec => []TypeOK
<1>1. IInv => TypeOK
  BY DEF IInv, Types, InstRec, RunRec, GoRec, TypeOK
<1> QED
  BY <1>1, IInvHolds, PTL

(***************************************************************************)
(* in.mu excludes (instance.go:104-176): two goroutines are never under    *)
(* the lock of the same Instance.                                          *)
(***************************************************************************)
Alone ==
  \A g, h \in Goroutines : Inside(g) /\ Inside(h) /\ gos[g].inst = gos[h].inst => g = h
THEOREM LockExcludes == Spec => []Alone
<1>1. IInv => Alone
  BY DEF IInv, InsideHolds, Alone
<1> QED
  BY <1>1, IInvHolds, PTL

(***************************************************************************)
(* No run is lost: whatever still has a process is in.run, or cancelled    *)
(* and waited for under the lock (instance.go:112-184, 287), and what      *)
(* outlives Shutdown() was launched after it had passed there (161).       *)
(***************************************************************************)
THEOREM RunsStayKnown == Spec => []NoRunIsLost
<1>1. IInv => NoRunIsLost
  <2> SUFFICES ASSUME IInv, mgr = "stopped", NEW u \in Runs, Live(u), runs[u].inst \in list, ~runs[u].late
               PROVE  FALSE
    BY DEF IInv, NoRunIsLost, StoppedRunsAreLate
  <2>1. runs[u].inst \in Objs /\ gos[runs[u].inst].pc \in {"lock", "locked", "drain"}
    BY DEF IInv, Types, StillToHalt
  <2> QED
    BY <2>1 DEF IInv, Phases, At
<1> QED
  BY <1>1, IInvHolds, PTL

=============================================================================
