----------------------------- MODULE HostProofs -----------------------------
(***************************************************************************)
(* The pid file of a host on which any number of stegotorus processes are  *)
(* started, killed and stopped.                                            *)
(***************************************************************************)
EXTENDS Host, TLAPS

(***************************************************************************)
(* Types.                                                                  *)
(***************************************************************************)
Stages == {"none", "configured", "daemon", "pidwrite", "pidfile", "events", "helper",
           "serving", "stopping", "gone"}

Statuses == {"none", "running", "exited 0", "exited 255", "killed", "dumped"}

SettingRecs == [allow_kq : BOOLEAN, daemon : BOOLEAN, pidfile : BOOLEAN,
                helper : BOOLEAN, log : {"null", "file", "stderr"}]

ProcRecs == [stage : Stages, set : SettingRecs, todo : Seq(Ports),
             listeners : SUBSET Ports, pf : {"none", "ok", "error"},
             child : Statuses, status : Statuses, stdin : BOOLEAN,
             asked : SUBSET {"signal", "stdin"}, busy : BOOLEAN, tidy : BOOLEAN]

ProcsOK == proc \in [Procs -> ProcRecs]

(***************************************************************************)
(* The invariant.  A process has the pid file from the moment open() with  *)
(* O_EXCL succeeded until it exits or dies.                                *)
(***************************************************************************)
Owner(p) ==
    \/ proc[p].stage = "pidwrite"
    \/ proc[p].pf = "ok" /\ proc[p].stage # "gone"

HostInv ==
    /\ \A p \in Procs : Owner(p) => pidfile \in {<<p>>, <<0>>}
    /\ \A p, q \in Procs : Owner(p) /\ Owner(q) => p = q
    /\ \A p \in Procs : proc[p].stage = "none" => proc[p].pf = "none"

(***************************************************************************)
(* What a step does to it: p is the process that moves.                    *)
(***************************************************************************)
\* Only p changes, and p does not come to have the file.
Moves(p) ==
    /\ \A q \in Procs \ {p} : proc'[q] = proc[q]
    /\ Owner(p)' => Owner(p)
    /\ proc'[p].stage # "none"

Takes(p) ==
    /\ \A q \in Procs \ {p} : proc'[q] = proc[q]
    /\ pidfile = <<>> /\ pidfile' = <<0>> /\ proc'[p].stage # "none"

Owns(p) ==
    /\ Moves(p)
    /\ \/ pidfile' = pidfile
       \/ Owner(p) /\ pidfile' \in {<<p>>, <<0>>}
       \/ Owner(p) /\ ~Owner(p)'

\* The child of a process ends, or the operator cleans up.
Idles ==
    /\ \A p \in Procs : proc'[p].stage = proc[p].stage /\ proc'[p].pf = proc[p].pf
    /\ \/ pidfile' = pidfile
       \/ \A p \in Procs : proc[p].stage \in {"none", "gone"}

HostStep == Idles \/ \E p \in Procs : Takes(p) \/ Owns(p)

LEMMA HostKeeps ==
    ASSUME HostInv, HostStep
    PROVE  HostInv'
<1>1. CASE Idles
  <2>1. \A p \in Procs : Owner(p)' <=> Owner(p)
    BY <1>1 DEF Idles, Owner
  <2>2. \A p \in Procs : Owner(p) => pidfile' = pidfile
    BY <1>1 DEF Idles, Owner, HostInv
  <2> QED
    BY <1>1, <2>1, <2>2 DEF HostInv, Idles
<1>2. ASSUME NEW p \in Procs, Takes(p) PROVE HostInv'
  <2>1. \A q \in Procs : ~Owner(q)
    BY <1>2 DEF Takes, HostInv
  <2>2. \A q \in Procs : Owner(q)' => q = p
    BY <1>2, <2>1 DEF Takes, Owner
  <2> QED
    BY <1>2, <2>2 DEF HostInv, Takes
<1>3. ASSUME NEW p \in Procs, Owns(p) PROVE HostInv'
  <2>1. \A q \in Procs : Owner(q)' => Owner(q)
    BY <1>3 DEF Owns, Moves, Owner
  <2>2. \A q \in Procs : Owner(q)' => pidfile' \in {<<q>>, <<0>>}
    BY <1>3, <2>1 DEF Owns, HostInv
  <2> QED
    BY <1>3, <2>1, <2>2 DEF HostInv, Owns, Moves
<1> QED
  BY <1>1, <1>2, <1>3 DEF HostStep

(***************************************************************************)
(* Every action is such a step.                                            *)
(***************************************************************************)
\* One process changes: it stays a process, and does not come to have the file.
Becomes(p, r) ==
    /\ r \in ProcRecs /\ proc' = [proc EXCEPT ![p] = r]
    /\ r.stage \notin {"none", "pidwrite"}
    /\ r.pf = proc[p].pf \/ r.pf = "error"
    /\ proc[p].stage = "gone" => r.stage = "gone"

LEMMA BecomesMoves ==
    ASSUME ProcsOK, NEW p \in Procs, NEW r, Becomes(p, r)
    PROVE  ProcsOK' /\ Moves(p) /\ proc'[p] = r
<1>1. proc' \in [Procs -> ProcRecs] /\ proc'[p] = r /\ \A q \in Procs \ {p} : proc'[q] = proc[q]
  BY DEF ProcsOK, Becomes
<1> QED
  BY <1>1 DEF ProcsOK, Moves, Owner, Becomes

LEMMA BecomesStep ==
    ASSUME ProcsOK, NEW p \in Procs, NEW r, Becomes(p, r), pidfile' = pidfile
    PROVE  ProcsOK' /\ HostStep
BY BecomesMoves DEF HostStep, Owns

LEMMA DiesBecomes ==
    ASSUME ProcsOK, NEW p \in Procs, NEW tidy \in BOOLEAN, Dies(p, tidy)
    PROVE  /\ Becomes(p, proc'[p])
           /\ proc'[p].stage = "gone" /\ proc'[p].pf = proc[p].pf
<1> DEFINE r == [proc[p] EXCEPT !.stage = "gone", !.listeners = {},
                                !.busy = FALSE, !.tidy = tidy]
<1>1. proc[p] \in ProcRecs
  BY DEF ProcsOK
<1>2. r \in ProcRecs /\ r.stage = "gone" /\ r.pf = proc[p].pf
  BY <1>1 DEF ProcRecs, Stages
<1>3. proc' = [proc EXCEPT ![p] = r] /\ proc'[p] = r
  BY DEF Dies, ProcsOK
<1> HIDE DEF r
<1> QED
  BY <1>2, <1>3 DEF Becomes

LEMMA DiesStep ==
    ASSUME ProcsOK, NEW p \in Procs, NEW tidy \in BOOLEAN, Dies(p, tidy), pidfile' = pidfile
    PROVE  ProcsOK' /\ HostStep
BY DiesBecomes, BecomesStep

LEMMA SettingsType ==
    ASSUME NEW cmd, NEW dict, Settings(cmd, dict) # <<>>
    PROVE  Settings(cmd, dict)[1] \in SettingRecs
<1> DEFINE seen == Visited(cmd, dict)
           on(o) == o \in DOMAIN seen /\ seen[o] = "true"
           log == CASE on("no-log") -> "null"
                    [] ~on("no-log") /\ "log-file" \in DOMAIN dict -> "file"
                    [] ~on("no-log") /\ on("daemon")
                       /\ "log-file" \notin DOMAIN dict -> "null"
                    [] OTHER -> "stderr"
           r == [allow_kq |-> on("allow-kqueue"), daemon |-> on("daemon"),
                 pidfile |-> "pid-file" \in DOMAIN dict,
                 helper |-> "registration-helper" \in DOMAIN dict, log |-> log]
<1>1. Settings(cmd, dict) = <<r>>
  BY DEF Settings
<1>2. log \in {"null", "file", "stderr"}
  OBVIOUS
<1>3. \A o : on(o) \in BOOLEAN
  OBVIOUS
<1> HIDE DEF log, on
<1>4. r \in SettingRecs
  BY <1>2, <1>3 DEF SettingRecs
<1> QED
  BY <1>1, <1>4

LEMMA StepConfigure ==
    ASSUME ProcsOK, NEW p \in Procs, Configure(p)
    PROVE  ProcsOK' /\ HostStep
<1>1. CASE Dies(p, FALSE)
  BY <1>1, DiesStep DEF Configure
<1>2. CASE ~Dies(p, FALSE)
  <2>1. PICK cmd \in CmdLines, file \in Files :
            LET dict == ProcessCommandLine(cmd.opts)
                reads == dict # <<>> /\ "config-file" \in DOMAIN dict[1]
                whole == IF reads THEN LoadFile(dict[1], file) ELSE dict
                set == IF dict = <<>> \/ whole = <<>> THEN <<>>
                       ELSE Settings(dict[1], whole[1])
                ports == cmd.ports \o (IF reads THEN file.ports ELSE <<>>)
            IN  /\ set # <<>>
                /\ proc' = [proc EXCEPT ![p].stage = "configured",
                                        ![p].set = set[1], ![p].todo = ports]
    BY <1>2 DEF Configure
  <2> DEFINE dict == ProcessCommandLine(cmd.opts)
             reads == dict # <<>> /\ "config-file" \in DOMAIN dict[1]
             whole == IF reads THEN LoadFile(dict[1], file) ELSE dict
             set == IF dict = <<>> \/ whole = <<>> THEN <<>>
                    ELSE Settings(dict[1], whole[1])
             ports == cmd.ports \o (IF reads THEN file.ports ELSE <<>>)
             r == [proc[p] EXCEPT !.stage = "configured", !.set = set[1], !.todo = ports]
  <2>2. set[1] \in SettingRecs
    BY <2>1, SettingsType
  <2>3. ports \in Seq(Ports)
    BY HostAssumption
  <2>4. proc' = [proc EXCEPT ![p].stage = "configured", ![p].set = set[1], ![p].todo = ports]
    BY <2>1
  <2> HIDE DEF set, ports
  <2>5. proc[p] \in ProcRecs /\ proc[p].stage = "none"
    BY DEF ProcsOK, Configure, At
  <2>6. r \in ProcRecs /\ r.stage = "configured" /\ r.pf = proc[p].pf
    BY <2>2, <2>3, <2>5 DEF ProcRecs, Stages
  <2>7. proc' = [proc EXCEPT ![p] = r]
    BY <2>4 DEF ProcsOK
  <2>8. Becomes(p, r)
    BY <2>5, <2>6, <2>7 DEF Becomes
  <2> QED
    BY <2>8, BecomesStep DEF Configure
<1> QED
  BY <1>1, <1>2

LEMMA StepStart ==
    ASSUME ProcsOK, NEW p \in Procs,
           Daemonize(p) \/ PidfileCreate(p) \/ PidfileWrite(p) \/ SetUpEvents(p)
    PROVE  ProcsOK' /\ HostStep
<1>0. proc[p] \in ProcRecs
  BY DEF ProcsOK
<1>1. CASE Daemonize(p)
  <2>1. CASE Dies(p, FALSE)
    BY <1>1, <2>1, DiesStep DEF Daemonize
  <2>2. CASE Goes(p, "daemon")
    <3> DEFINE r == [proc[p] EXCEPT !.stage = "daemon"]
    <3>1. r \in ProcRecs /\ r.stage = "daemon" /\ r.pf = proc[p].pf
      BY <1>0 DEF ProcRecs, Stages
    <3>2. Becomes(p, r)
      BY <1>1, <2>2, <3>1 DEF Becomes, Goes, ProcsOK, Daemonize, At
    <3> QED
      BY <1>1, <3>2, BecomesStep DEF Daemonize
  <2> QED
    BY <1>1, <2>1, <2>2 DEF Daemonize
<1>2. CASE PidfileCreate(p)
  <2>1. CASE Goes(p, "pidfile") /\ pidfile' = pidfile
    <3> DEFINE r == [proc[p] EXCEPT !.stage = "pidfile"]
    <3>1. r \in ProcRecs /\ r.stage = "pidfile" /\ r.pf = proc[p].pf
      BY <1>0 DEF ProcRecs, Stages
    <3>2. Becomes(p, r)
      BY <1>2, <2>1, <3>1 DEF Becomes, Goes, ProcsOK, PidfileCreate, At
    <3> QED
      BY <2>1, <3>2, BecomesStep
  <2>2. CASE /\ proc' = [proc EXCEPT ![p].stage = "pidfile", ![p].pf = "error"]
             /\ pidfile' = pidfile
    <3> DEFINE r == [proc[p] EXCEPT !.stage = "pidfile", !.pf = "error"]
    <3>1. r \in ProcRecs /\ r.stage = "pidfile" /\ r.pf = "error"
      BY <1>0 DEF ProcRecs, Stages
    <3>2. Becomes(p, r)
      BY <1>2, <2>2, <3>1 DEF Becomes, ProcsOK, PidfileCreate, At
    <3> QED
      BY <2>2, <3>2, BecomesStep
  <2>3. CASE /\ proc' = [proc EXCEPT ![p].stage = "pidwrite"]
             /\ pidfile = <<>> /\ pidfile' = <<0>>
    <3>1. /\ proc' \in [Procs -> ProcRecs] /\ proc'[p].stage = "pidwrite"
          /\ \A q \in Procs \ {p} : proc'[q] = proc[q]
      BY <1>0, <2>3 DEF ProcsOK, ProcRecs, Stages
    <3> QED
      BY <2>3, <3>1 DEF HostStep, Takes, ProcsOK
  <2> QED
    BY <1>2, <2>1, <2>2, <2>3 DEF PidfileCreate
<1>3. CASE PidfileWrite(p)
  <2>0. Owner(p) /\ proc[p].stage = "pidwrite"
    BY <1>3 DEF PidfileWrite, At, Owner
  <2>1. CASE /\ proc' = [proc EXCEPT ![p].stage = "pidfile", ![p].pf = "ok"]
             /\ pidfile' \in {<<p>>, <<0>>}
    <3>1. /\ proc' \in [Procs -> ProcRecs] /\ proc'[p].stage = "pidfile"
          /\ \A q \in Procs \ {p} : proc'[q] = proc[q]
      BY <1>0, <2>1 DEF ProcsOK, ProcRecs, Stages
    <3> QED
      BY <2>0, <2>1, <3>1 DEF HostStep, Owns, Moves, ProcsOK
  <2>2. CASE /\ proc' = [proc EXCEPT ![p].stage = "pidfile", ![p].pf = "error"]
             /\ pidfile' = <<>>
    <3>1. /\ proc' \in [Procs -> ProcRecs] /\ proc'[p].stage = "pidfile"
          /\ proc'[p].pf = "error"
          /\ \A q \in Procs \ {p} : proc'[q] = proc[q]
      BY <1>0, <2>2 DEF ProcsOK, ProcRecs, Stages
    <3>2. ~Owner(p)'
      BY <3>1 DEF Owner
    <3> QED
      BY <2>0, <3>1, <3>2 DEF HostStep, Owns, Moves, ProcsOK
  <2> QED
    BY <1>3, <2>1, <2>2 DEF PidfileWrite
<1>4. CASE SetUpEvents(p)
  <2>1. PICK watched \in BOOLEAN :
            proc' = [proc EXCEPT ![p].stage = "events", ![p].stdin = watched]
    BY <1>4 DEF SetUpEvents
  <2> DEFINE r == [proc[p] EXCEPT !.stage = "events", !.stdin = watched]
  <2>2. r \in ProcRecs /\ r.stage = "events" /\ r.pf = proc[p].pf
    BY <1>0 DEF ProcRecs, Stages
  <2>3. Becomes(p, r)
    BY <1>4, <2>1, <2>2 DEF Becomes, ProcsOK, SetUpEvents, At
  <2> QED
    BY <1>4, <2>3, BecomesStep DEF SetUpEvents
<1> QED
  BY <1>1, <1>2, <1>3, <1>4

LEMMA StepServe ==
    ASSUME ProcsOK, NEW p \in Procs,
           ListenerOpen(p) \/ CallHelper(p) \/ HelperWaited(p) \/ Traffic(p)
    PROVE  ProcsOK' /\ HostStep
<1>0. proc[p] \in ProcRecs
  BY DEF ProcsOK
<1>1. CASE ListenerOpen(p)
  <2> DEFINE a == Head(proc[p].todo)
             r == [proc[p] EXCEPT !.listeners = @ \cup {a}, !.todo = Tail(@)]
  <2>1. CASE Dies(p, FALSE)
    BY <1>1, <2>1, DiesStep DEF ListenerOpen
  <2>2. CASE proc' = [proc EXCEPT ![p].listeners = @ \cup {a}, ![p].todo = Tail(@)]
    <3>1. proc[p].todo \in Seq(Ports) /\ proc[p].todo # <<>> /\ proc[p].stage = "events"
      BY <1>0, <1>1 DEF ListenerOpen, ProcRecs, At
    <3>2. a \in Ports /\ Tail(proc[p].todo) \in Seq(Ports)
      BY <3>1
    <3> HIDE DEF a
    <3>3. r \in ProcRecs /\ r.stage = "events" /\ r.pf = proc[p].pf
      BY <1>0, <3>1, <3>2 DEF ProcRecs
    <3>4. Becomes(p, r)
      BY <2>2, <3>1, <3>3 DEF Becomes, ProcsOK
    <3> QED
      BY <1>1, <3>4, BecomesStep DEF ListenerOpen
  <2> QED
    BY <1>1, <2>1, <2>2 DEF ListenerOpen
<1>2. CASE CallHelper(p)
  <2> DEFINE b == [proc[p] EXCEPT !.stage = "helper", !.child = "running"]
             c == [proc[p] EXCEPT !.stage = "serving", !.status = "exited 255"]
             d == [proc[p] EXCEPT !.stage = "serving"]
  <2>1. proc' \in {[proc EXCEPT ![p] = b], [proc EXCEPT ![p] = c], [proc EXCEPT ![p] = d]}
    BY <1>2 DEF CallHelper, ForkExec, Goes, ProcsOK
  <2>2. /\ b \in ProcRecs /\ b.stage = "helper" /\ b.pf = proc[p].pf
        /\ c \in ProcRecs /\ c.stage = "serving" /\ c.pf = proc[p].pf
        /\ d \in ProcRecs /\ d.stage = "serving" /\ d.pf = proc[p].pf
    BY <1>0 DEF ProcRecs, Stages, Statuses
  <2> HIDE DEF b, c, d
  <2>3. proc[p].stage # "gone" /\ pidfile' = pidfile
    BY <1>2 DEF CallHelper, At
  <2>4. \E r \in {b, c, d} : Becomes(p, r)
    BY <2>1, <2>2, <2>3 DEF Becomes
  <2> QED
    BY <2>3, <2>4, BecomesStep
<1>3. CASE HelperWaited(p)
  <2> DEFINE r == [proc[p] EXCEPT !.stage = "serving", !.status = proc[p].child]
  <2>1. r \in ProcRecs /\ r.stage = "serving" /\ r.pf = proc[p].pf
    BY <1>0 DEF ProcRecs, Stages
  <2>2. Becomes(p, r)
    BY <1>3, <2>1 DEF HelperWaited, At, Becomes, ProcsOK
  <2> QED
    BY <1>3, <2>2, BecomesStep DEF HelperWaited
<1>4. CASE Traffic(p)
  <2> DEFINE r == [proc[p] EXCEPT !.busy = ~@]
  <2>1. r \in ProcRecs /\ r.stage = proc[p].stage /\ r.pf = proc[p].pf
    BY <1>0 DEF ProcRecs
  <2>2. Becomes(p, r)
    BY <1>4, <2>1 DEF Traffic, At, Becomes, ProcsOK
  <2> QED
    BY <1>4, <2>2, BecomesStep DEF Traffic
<1> QED
  BY <1>1, <1>2, <1>3, <1>4

LEMMA StepEnd ==
    ASSUME ProcsOK, NEW p \in Procs,
           \/ Signal(p) \/ StdinEof(p) \/ \E why \in {"signal", "stdin"} : StartShutdown(p, why)
           \/ Exit(p) \/ LastCloses(p) \/ Crash(p)
    PROVE  ProcsOK' /\ HostStep
<1>0. proc[p] \in ProcRecs
  BY DEF ProcsOK
<1>1. CASE Signal(p)
  <2> DEFINE r == [proc[p] EXCEPT !.asked = @ \cup {"signal"}]
  <2>1. CASE Dies(p, FALSE)
    BY <1>1, <2>1, DiesStep DEF Signal
  <2>2. CASE ~Dies(p, FALSE)
    <3>1. /\ proc[p].stage \in {"events", "helper", "serving", "stopping"}
          /\ proc' = [proc EXCEPT ![p] = r]
      BY <1>1, <2>2 DEF Signal, ProcsOK
    <3>2. r \in ProcRecs /\ r.stage = proc[p].stage /\ r.pf = proc[p].pf
      BY <1>0 DEF ProcRecs
    <3>3. Becomes(p, r)
      BY <3>1, <3>2 DEF Becomes
    <3> QED
      BY <1>1, <3>3, BecomesStep DEF Signal
  <2> QED
    BY <2>1, <2>2
<1>2. CASE StdinEof(p)
  <2> DEFINE r == [proc[p] EXCEPT !.asked = @ \cup {"stdin"}]
  <2>1. r \in ProcRecs /\ r.stage = proc[p].stage /\ r.pf = proc[p].pf
    BY <1>0 DEF ProcRecs
  <2>2. Becomes(p, r)
    BY <1>2, <2>1 DEF StdinEof, Becomes, ProcsOK
  <2> QED
    BY <1>2, <2>2, BecomesStep DEF StdinEof
<1>3. ASSUME NEW why \in {"signal", "stdin"}, StartShutdown(p, why)
      PROVE  ProcsOK' /\ HostStep
  <2> DEFINE r == [proc[p] EXCEPT !.stage = "stopping", !.listeners = {},
                                  !.asked = @ \ {why}, !.busy = @ /\ why # "signal"]
  <2>1. r \in ProcRecs /\ r.stage = "stopping" /\ r.pf = proc[p].pf
    BY <1>0 DEF ProcRecs, Stages
  <2>2. Becomes(p, r)
    BY <1>3, <2>1 DEF StartShutdown, Becomes, ProcsOK
  <2> QED
    BY <1>3, <2>2, BecomesStep DEF StartShutdown
<1>4. CASE Exit(p)
  <2>1. Dies(p, TRUE) /\ proc[p].stage = "stopping" /\ pidfile' = PidfileRelease(p)
    BY <1>4 DEF Exit, At
  <2>2. /\ Becomes(p, proc'[p]) /\ proc'[p].stage = "gone" /\ proc'[p].pf = proc[p].pf
    BY <2>1, DiesBecomes
  <2>3. ProcsOK' /\ Moves(p)
    BY <2>2, BecomesMoves
  <2>4. ~Owner(p)'
    BY <2>2 DEF Owner
  <2>5. pidfile' = pidfile \/ Owner(p)
    BY <2>1 DEF PidfileRelease, Owner
  <2> QED
    BY <2>3, <2>4, <2>5 DEF HostStep, Owns
<1>5. CASE LastCloses(p)
  <2> DEFINE r == [proc[p] EXCEPT !.busy = FALSE]
  <2>1. r \in ProcRecs /\ r.stage = proc[p].stage /\ r.pf = proc[p].pf
    BY <1>0 DEF ProcRecs
  <2>2. Becomes(p, r)
    BY <1>5, <2>1 DEF LastCloses, At, Becomes, ProcsOK
  <2> QED
    BY <1>5, <2>2, BecomesStep DEF LastCloses
<1>6. CASE Crash(p)
  BY <1>6, DiesStep DEF Crash
<1> QED
  BY <1>1, <1>2, <1>3, <1>4, <1>5, <1>6

LEMMA StepOther ==
    ASSUME ProcsOK, RemoveStale \/ \E p \in Procs : HelperEnds(p)
    PROVE  ProcsOK' /\ HostStep
<1>1. CASE RemoveStale
  BY <1>1 DEF RemoveStale, HostStep, Idles, ProcsOK
<1>2. ASSUME NEW p \in Procs, HelperEnds(p) PROVE ProcsOK' /\ HostStep
  <2>1. PICK how \in {"exited 0", "exited 255", "killed", "dumped"} :
            proc' = [proc EXCEPT ![p].child = how]
    BY <1>2 DEF HelperEnds
  <2>2. proc[p] \in ProcRecs
    BY DEF ProcsOK
  <2>3. /\ proc' \in [Procs -> ProcRecs]
        /\ \A q \in Procs : proc'[q].stage = proc[q].stage /\ proc'[q].pf = proc[q].pf
    BY <2>1, <2>2 DEF ProcsOK, ProcRecs, Statuses
  <2> QED
    BY <1>2, <2>3 DEF HelperEnds, HostStep, Idles, ProcsOK
<1> QED
  BY <1>1, <1>2

LEMMA HostInit == Init => ProcsOK /\ HostInv
<1> SUFFICES ASSUME Init PROVE ProcsOK /\ HostInv
  OBVIOUS
<1>1. NoSettings \in SettingRecs
  BY DEF NoSettings, SettingRecs
<1>2. <<>> \in Seq(Ports)
  OBVIOUS
<1>3. ProcsOK
  BY <1>1, <1>2 DEF Init, ProcsOK, ProcRecs, Stages, Statuses
<1>4. \A p \in Procs : proc[p].stage = "none" /\ proc[p].pf = "none"
  BY DEF Init
<1> QED
  BY <1>3, <1>4 DEF HostInv, Owner

LEMMA HostNext ==
    ASSUME ProcsOK, HostInv, [Next]_vars
    PROVE  ProcsOK' /\ HostInv'
<1>1. CASE Next
  <2>1. ProcsOK' /\ HostStep
    BY <1>1, StepConfigure, StepStart, StepServe, StepEnd, StepOther DEF Next
  <2> QED
    BY <2>1, HostKeeps
<1>2. CASE UNCHANGED vars
  <2>1. HostStep
    BY <1>2 DEF vars, HostStep, Idles
  <2> QED
    BY <1>2, <2>1, HostKeeps DEF vars, ProcsOK
<1> QED
  BY <1>1, <1>2

\* However many processes start, fail, are killed and stop, the pid file of a
\* process that made one stays as it is until that process is gone: the one
\* that opened it with O_EXCL is the only one that writes or removes it
\* (pidfile::pidfile, pidfile::~pidfile), including the window
\* between creating the file and writing to it.
THEOREM PidfileIsHeld == Spec => []PidfileHeld
<1>1. HostInv => PidfileHeld
  BY DEF HostInv, Owner, PidfileHeld
<1>2. Init => ProcsOK /\ HostInv
  BY HostInit
<1>3. ProcsOK /\ HostInv /\ [Next]_vars => (ProcsOK /\ HostInv)'
  BY HostNext
<1> QED
  BY <1>1, <1>2, <1>3, PTL DEF Spec
=============================================================================
