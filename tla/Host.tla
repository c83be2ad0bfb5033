-------------------------------- MODULE Host --------------------------------
(***************************************************************************)
(* A stegotorus process from its command line to its exit (main.cc), with  *)
(* its options (modus_operandi.cc), its listeners (network.cc), the pid    *)
(* file, the daemon and the registration helper (subprocess-unix.cc).      *)
(*                                                                         *)
(* Several processes run on one host and compete for what the host has one *)
(* of: listening addresses and a pid file.  An action is a stretch of      *)
(* main() between two uses of the host; a process may be killed between    *)
(* any two of them.                                                        *)
(***************************************************************************)
EXTENDS Integers, Sequences, FiniteSets

CONSTANTS Procs,        \* the processes that are started
          Ports,        \* the listening addresses of the host
          CmdLines,     \* the command lines used: [opts, ports]
          Files,        \* the configuration files used: [opts, ports]
          FaultKinds,   \* what goes wrong: see Faulty
          MaxFaults

ASSUME HostAssumption ==
    /\ MaxFaults \in Nat /\ 0 \notin Procs
    /\ \A c \in CmdLines : c.ports \in Seq(Ports)
    /\ \A c \in Files : c.ports \in Seq(Ports)

VARIABLES
    proc,      \* proc[p]: the process
    pidfile,   \* what the pid file holds; <<>> if there is none
    bound,     \* bound[a]: the process that listens on address a; 0 if none
    faults

vars == <<proc, pidfile, bound, faults>>

Flags == {"allow-kqueue", "daemon", "no-log", "timestamp-logs", "help"}
Texts == {"config-file", "log-file", "log-min-severity", "pid-file",
          "registration-helper"}

\* Something outside the process goes wrong.
Faulty(kind) == kind \in FaultKinds /\ faults < MaxFaults /\ faults' = faults + 1

-----------------------------------------------------------------------------
(* Options.  A dictionary maps the name of an option to "true", "false" or *)
(* "bad" for a flag, and to "text" for an option with an argument.         *)

\* process_command_line_config: an option given twice aborts.
ProcessCommandLine(opts) ==
    IF \E i, j \in DOMAIN opts : i # j /\ opts[i] = opts[j] THEN <<>>
    ELSE <<[o \in {opts[i] : i \in DOMAIN opts} |->
                IF o \in Flags THEN "true" ELSE "text"]>>

\* load_file: what the file says replaces what the command line said.  The
\* file may only have options that the command line has.
LoadFile(dict, file) ==
    IF DOMAIN file.opts \subseteq Flags \cup Texts
    THEN <<[o \in DOMAIN dict \cup DOMAIN file.opts |->
              IF o \in DOMAIN file.opts THEN file.opts[o] ELSE dict[o]]>>
    ELSE <<>>

\* handle_generic_args goes through the dictionary in the order of the names
\* while load_file adds to it: what the file says of a name before
\* "config-file" comes too late.
Visited(cmd, dict) ==
    [o \in DOMAIN dict \ ({"allow-kqueue"} \ DOMAIN cmd) |->
        IF o = "allow-kqueue" THEN cmd[o] ELSE dict[o]]

\* The settings that handle_generic_args makes; <<>> if it exits, which it
\* also does for a flag that the file sets to false.
Settings(cmd, dict) ==
    LET seen == Visited(cmd, dict)
        on(o) == o \in DOMAIN seen /\ seen[o] = "true"
    IN  IF \/ \E o \in DOMAIN seen \cap Flags : seen[o] # "true"
           \/ "help" \in DOMAIN dict
           \/ on("no-log") /\ {"log-file", "log-min-severity"} \cap DOMAIN dict # {}
        THEN <<>>
        ELSE <<[allow_kq |-> on("allow-kqueue"), daemon |-> on("daemon"),
                pidfile |-> "pid-file" \in DOMAIN dict,
                helper |-> "registration-helper" \in DOMAIN dict,
                log |-> CASE on("no-log") -> "null"
                          [] ~on("no-log") /\ "log-file" \in DOMAIN dict -> "file"
                          [] ~on("no-log") /\ on("daemon")
                             /\ "log-file" \notin DOMAIN dict -> "null"
                          [] OTHER -> "stderr"]>>

-----------------------------------------------------------------------------
(* Processes.                                                              *)

NoSettings == [allow_kq |-> FALSE, daemon |-> FALSE, pidfile |-> FALSE,
               helper |-> FALSE, log |-> "stderr"]

Init ==
    /\ proc = [p \in Procs |-> [stage |-> "none", set |-> NoSettings,
                                todo |-> <<>>, listeners |-> {}, pf |-> "none",
                                child |-> "none", status |-> "none",
                                stdin |-> FALSE, asked |-> {}, busy |-> FALSE,
                                tidy |-> FALSE]]
    /\ pidfile = <<>>
    /\ bound = [a \in Ports |-> 0]
    /\ faults = 0

At(p, stage) == proc[p].stage = stage
Goes(p, stage) == proc' = [proc EXCEPT ![p].stage = stage]

\* The process is gone, and the kernel closes its sockets.  tidy says that
\* main() returned.
Dies(p, tidy) ==
    /\ proc' = [proc EXCEPT ![p].stage = "gone", ![p].listeners = {},
                            ![p].busy = FALSE, ![p].tidy = tidy]
    /\ bound' = [a \in Ports |-> IF bound[a] = p THEN 0 ELSE bound[a]]

\* The user starts the process: handle_generic_args, then config_create for
\* the configurations of the command line and for those of the file.
Configure(p) ==
    /\ At(p, "none")
    /\ \E cmd \in CmdLines, file \in Files :
          LET dict == ProcessCommandLine(cmd.opts)
              reads == dict # <<>> /\ "config-file" \in DOMAIN dict[1]
              whole == IF reads THEN LoadFile(dict[1], file) ELSE dict
              set == IF dict = <<>> \/ whole = <<>> THEN <<>>
                     ELSE Settings(dict[1], whole[1])
              ports == cmd.ports \o (IF reads THEN file.ports ELSE <<>>)
          IN  /\ \/ /\ set # <<>> /\ ports # <<>>
                    /\ proc' = [proc EXCEPT ![p].stage = "configured",
                                            ![p].set = set[1], ![p].todo = ports]
                    /\ UNCHANGED <<bound, faults>>
                 \/ set = <<>> /\ Dies(p, FALSE) /\ UNCHANGED faults
                 \/ ports = <<>> /\ Dies(p, FALSE) /\ UNCHANGED faults
                 \/ Faulty("config") /\ Dies(p, FALSE)
    /\ UNCHANGED pidfile

\* daemonize: two forks.  If the first fails the process aborts; if the
\* second does, the process takes itself for the parent and exits.
Daemonize(p) ==
    /\ At(p, "configured")
    /\ \/ Goes(p, "daemon") /\ UNCHANGED <<bound, faults>>
       \/ proc[p].set.daemon /\ Faulty("fork") /\ Dies(p, FALSE)
    /\ UNCHANGED pidfile

\* pidfile::pidfile.  What is written comes from a string that is already
\* destroyed: the number of the process, or 0 for anything else.
PidfileCreate(p) ==
    /\ At(p, "daemon")
    /\ \/ /\ ~proc[p].set.pidfile
          /\ Goes(p, "pidfile") /\ UNCHANGED <<pidfile, faults>>
       \/ /\ proc[p].set.pidfile /\ pidfile # <<>>
          /\ proc' = [proc EXCEPT ![p].stage = "pidfile", ![p].pf = "error"]
          /\ UNCHANGED <<pidfile, faults>>
       \/ /\ proc[p].set.pidfile /\ pidfile = <<>>
          /\ proc' = [proc EXCEPT ![p].stage = "pidwrite"]
          /\ pidfile' = <<0>>
          /\ UNCHANGED faults
    /\ UNCHANGED bound

\* The rest of pidfile::pidfile: write, close, and remove if either fails.
PidfileWrite(p) ==
    /\ At(p, "pidwrite")
    /\ \/ /\ proc' = [proc EXCEPT ![p].stage = "pidfile", ![p].pf = "ok"]
          /\ pidfile' \in {<<p>>, <<0>>}
          /\ UNCHANGED faults
       \/ /\ Faulty("disk")
          /\ proc' = [proc EXCEPT ![p].stage = "pidfile", ![p].pf = "error"]
          /\ pidfile' = <<>>
    /\ UNCHANGED bound

\* libevent, the signals and standard input, which is watched when it is a
\* pipe, a socket or a terminal, and so never by a daemon.
SetUpEvents(p) ==
    /\ At(p, "pidfile")
    /\ \E watched \in IF proc[p].set.daemon THEN {FALSE} ELSE BOOLEAN :
          proc' = [proc EXCEPT ![p].stage = "events", ![p].stdin = watched]
    /\ UNCHANGED <<pidfile, bound, faults>>

\* listener_open for the next address; a failure aborts the process.
ListenerOpen(p) ==
    /\ At(p, "events") /\ proc[p].todo # <<>>
    /\ LET a == Head(proc[p].todo)
       IN  IF bound[a] = 0
           THEN /\ bound' = [bound EXCEPT ![a] = p]
                /\ proc' = [proc EXCEPT ![p].listeners = @ \cup {a},
                                        ![p].todo = Tail(@)]
           ELSE Dies(p, FALSE)
    /\ UNCHANGED <<pidfile, faults>>

\* do_fork_exec; subprocess::wait takes a fork that failed for a child that
\* exited unsuccessfully.
ForkExec(p) ==
    \/ /\ proc' = [proc EXCEPT ![p].stage = "helper", ![p].child = "running"]
       /\ UNCHANGED faults
    \/ /\ Faulty("fork")
       /\ proc' = [proc EXCEPT ![p].stage = "serving", ![p].status = "exited 255"]

\* call_registration_helper, which waits for the helper to end.
CallHelper(p) ==
    /\ At(p, "events") /\ proc[p].todo = <<>>
    /\ IF proc[p].set.helper THEN ForkExec(p) ELSE Goes(p, "serving") /\ UNCHANGED faults
    /\ UNCHANGED <<pidfile, bound>>

\* The child ends, by itself or by a signal (the helper is not of this code).
HelperEnds(p) ==
    /\ proc[p].child = "running"
    /\ \E how \in {"exited 0", "exited 255", "killed", "dumped"} :
          proc' = [proc EXCEPT ![p].child = how]
    /\ UNCHANGED <<pidfile, bound, faults>>

\* wait_common and decode_status; only then does main() enter its loop.
HelperWaited(p) ==
    /\ At(p, "helper") /\ proc[p].child # "running"
    /\ proc' = [proc EXCEPT ![p].stage = "serving", ![p].status = proc[p].child]
    /\ UNCHANGED <<pidfile, bound, faults>>

\* Connections come and go.
Traffic(p) ==
    /\ At(p, "serving")
    /\ \/ proc[p].busy
       \/ proc[p].listeners # {}
    /\ proc' = [proc EXCEPT ![p].busy = ~@]
    /\ UNCHANGED <<pidfile, bound, faults>>

\* SIGINT or SIGTERM.  Before the handlers are installed it kills; from then
\* on it is noted, and handled when the loop runs.
Signal(p) ==
    /\ proc[p].stage \notin {"none", "gone"} /\ "signal" \notin proc[p].asked
    /\ IF proc[p].stage \in {"events", "helper", "serving", "stopping"}
       THEN /\ proc' = [proc EXCEPT ![p].asked = @ \cup {"signal"}]
            /\ UNCHANGED <<bound, faults>>
       ELSE Faulty("kill") /\ Dies(p, FALSE)
    /\ UNCHANGED pidfile

\* Standard input ends, if it is watched.
StdinEof(p) ==
    /\ proc[p].stdin /\ proc[p].stage \in {"events", "helper", "serving", "stopping"}
    /\ "stdin" \notin proc[p].asked
    /\ proc' = [proc EXCEPT ![p].asked = @ \cup {"stdin"}]
    /\ UNCHANGED <<pidfile, bound, faults>>

\* listener_close_all, listener_close
ListenerCloseAll(p) == [a \in Ports |-> IF bound[a] = p THEN 0 ELSE bound[a]]

\* start_shutdown, from handle_signal_cb (which breaks connections) or from
\* stdin_detect_eof_cb (which does not).
StartShutdown(p, why) ==
    /\ proc[p].stage \in {"serving", "stopping"} /\ why \in proc[p].asked
    /\ bound' = ListenerCloseAll(p)
    /\ proc' = [proc EXCEPT ![p].stage = "stopping", ![p].listeners = {},
                            ![p].asked = @ \ {why},
                            ![p].busy = @ /\ why # "signal"]
    /\ UNCHANGED <<pidfile, faults>>

\* Mutation: a process removes the pid file it could not create.
PidfileReleaseAlways(p) == IF proc[p].set.pidfile THEN <<>> ELSE pidfile

\* Mutation: nobody removes the pid file.
PidfileReleaseNever(p) == pidfile

\* pidfile::~pidfile
PidfileRelease(p) ==
    IF proc[p].set.pidfile /\ proc[p].pf = "ok" THEN <<>> ELSE pidfile

\* The loop ends when the last connection has; main() cleans up and returns.
Exit(p) ==
    /\ At(p, "stopping") /\ ~proc[p].busy
    /\ pidfile' = PidfileRelease(p)
    /\ Dies(p, TRUE)
    /\ UNCHANGED faults

\* The last connection of a process that is stopping closes.
LastCloses(p) ==
    /\ At(p, "stopping") /\ proc[p].busy
    /\ proc' = [proc EXCEPT ![p].busy = FALSE]
    /\ UNCHANGED <<pidfile, bound, faults>>

\* lethal_signal, log_abort, a power failure.
Crash(p) ==
    /\ proc[p].stage \notin {"none", "gone"}
    /\ Faulty("crash") /\ Dies(p, FALSE)
    /\ UNCHANGED pidfile

\* The operator clears away what a process that died has left.
RemoveStale ==
    /\ pidfile # <<>>
    /\ \A p \in Procs : proc[p].stage \in {"none", "gone"}
    /\ pidfile' = <<>>
    /\ UNCHANGED <<proc, bound, faults>>

Next ==
    \/ \E p \in Procs :
          \/ Configure(p) \/ Daemonize(p) \/ PidfileCreate(p) \/ PidfileWrite(p)
          \/ SetUpEvents(p) \/ ListenerOpen(p) \/ CallHelper(p) \/ HelperEnds(p)
          \/ HelperWaited(p) \/ Traffic(p) \/ Signal(p) \/ StdinEof(p)
          \/ \E why \in {"signal", "stdin"} : StartShutdown(p, why)
          \/ Exit(p) \/ LastCloses(p) \/ Crash(p)
    \/ RemoveStale

Spec == Init /\ [][Next]_vars

\* A process runs on until it waits for someone else; the helper ends.
Fairness ==
    \A p \in Procs :
        /\ WF_vars(Daemonize(p)) /\ WF_vars(PidfileCreate(p))
        /\ WF_vars(PidfileWrite(p)) /\ WF_vars(SetUpEvents(p))
        /\ WF_vars(ListenerOpen(p)) /\ WF_vars(CallHelper(p))
        /\ WF_vars(HelperEnds(p)) /\ WF_vars(HelperWaited(p))
        /\ WF_vars(StartShutdown(p, "signal")) /\ WF_vars(Exit(p))

FairSpec == Spec /\ Fairness

-----------------------------------------------------------------------------
(* Properties.                                                             *)

\* The pid file of a process that made one stays as it is until that process
\* ends: no other process, failing to make its own or on its way out, takes
\* it away (pidfile::pidfile, pidfile::~pidfile).
PidfileHeld ==
    \A p \in Procs :
        proc[p].pf = "ok" /\ proc[p].stage # "gone" => pidfile \in {<<p>>, <<0>>}

\* A process that gets a signal once its handlers are installed leaves the
\* host as it found it: it ends, nothing listens for it, and a pid file that
\* names it is gone (start_shutdown, and the end of main), unless it crashes
\* or aborts on the way.
SignalReleases ==
    \A p \in Procs :
        "signal" \in proc[p].asked
          ~> /\ proc[p].stage = "gone"
             /\ \A a \in Ports : bound[a] # p
             /\ proc[p].tidy /\ proc[p].pf = "ok" => pidfile # <<p>>
=============================================================================
