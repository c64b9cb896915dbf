------------------------------ MODULE Frontend ------------------------------
(***************************************************************************)
(* main() and run_tui_loop() of src/src/main.rs around the search engine:  *)
(* main runs the command it was given; for a search the command line       *)
(* decides which threads are started, the interactive loop polls the       *)
(* shared cells, finish() is called, the terminal is restored, the result  *)
(* is printed and the process exits.  The steps of the engine are those of *)
(* module Search; this module says when main lets them happen.             *)
(*                                                                         *)
(* Left out: what is drawn.  What bench and --verify do inside is the      *)
(* matter of modules Bench and KeygenVerify.                               *)
(***************************************************************************)
EXTENDS Search, CoresBesideGpus

CONSTANTS
  Clis,        \* command lines: [command, valid, json, cpu_only, gpu_only, threads]
  Machines,    \* [logical, physical : cores, build : the GPU feature compiled in,
               \*  opens : does the device initialise?]
  AllCores,    \* the value of `threads` when -t is not given
  IoMayFail    \* can a terminal operation or a write fail?

\* What clap lets through: GPU flags exist in GPU builds only (the instance
\* pairs them so) and exclude each other.
ASSUME MachinesAssumption ==
  /\ Machines \subseteq [logical : Nat \ {0}, physical : Nat,
                         build : {"cpu", "cuda", "metal"}, opens : BOOLEAN]
  /\ Clis \subseteq [command : {"search", "verify", "bench"}, valid : BOOLEAN,
                     json : BOOLEAN, cpu_only : BOOLEAN, gpu_only : BOOLEAN,
                     threads : Nat \cup {AllCores}]
  /\ \A c \in Clis : ~(c.cpu_only /\ c.gpu_only)      \* clap: conflicts_with
  /\ AllCores \notin Nat

VARIABLES
  cli, machine,
  ui,       \* where main is
  screen,   \* what run_tui_loop has done to the terminal: {}, "raw", "alt"
  seen,     \* `done`, as read at the top of the loop
  exit      \* why the process ended, or "none"

frontVars == <<cli, machine, ui, screen, seen, exit>>
fvars == <<vars, frontVars>>

(***************************************************************************)
(* The choice of threads.                                                  *)
(***************************************************************************)
GpuFlags(c) == c.cpu_only \/ c.gpu_only \/ c.command = "verify"

\* try_init_gpu: one device, or a warning and none.
try_init_gpu(m) == IF m.build # "cpu" /\ m.opens THEN 1 ELSE 0

GpuSearchers(c, m) == IF c.cpu_only THEN 0 ELSE try_init_gpu(m)

NumThreads(c, m) ==
  IF c.threads # AllCores THEN c.threads
  ELSE IF GpuSearchers(c, m) > 0 /\ ~c.gpu_only
         THEN default_hybrid_cpu_threads(m, GpuSearchers(c, m))
         ELSE m.logical

\* --gpu-only without a GPU is refused before anything is started.
Refused(c, m) == c.gpu_only /\ GpuSearchers(c, m) = 0

\* SearchHandle::start, start_gpu, start_hybrid: what each pushes into `workers`.
StartCpu(threads) == [cpu |-> threads, gpu |-> 0, metal |-> FALSE]
StartGpu(gpus, m) == [cpu |-> 0, gpu |-> gpus, metal |-> m.build = "metal"]
StartHybrid(threads, gpus, m) == [StartGpu(gpus, m) EXCEPT !.cpu = threads]

RequestOf(c, m) ==
  CASE c.gpu_only -> StartGpu(GpuSearchers(c, m), m)
    [] ~c.gpu_only /\ GpuSearchers(c, m) = 0 -> StartCpu(NumThreads(c, m))
    [] OTHER -> StartHybrid(NumThreads(c, m), GpuSearchers(c, m), m)

(***************************************************************************)
(* Actions.                                                                *)
(***************************************************************************)
FInit ==
  /\ Init
  /\ cli \in Clis /\ machine \in Machines
  /\ machine.build = "cpu" => ~GpuFlags(cli)
  /\ request = RequestOf(cli, machine)
  /\ ui = "main" /\ screen = {} /\ seen = FALSE /\ exit = "none"

\* The process ends, and with it every thread.
Exit(why) == ui' = "exited" /\ exit' = why

\* The bench subcommand takes no prefix and no flag of the search.
RunBench ==
  /\ ui = "main" /\ cli.command = "bench"
  /\ Exit("benched") \/ Exit("bench failed")
  /\ UNCHANGED <<vars, cli, machine, screen, seen>>

\* The first prefix that validate_prefix rejects ends the program.
RejectPrefix ==
  /\ ui = "main" /\ cli.command # "bench" /\ ~cli.valid
  /\ Exit("bad prefix")
  /\ UNCHANGED <<vars, cli, machine, screen, seen>>

\* --verify runs instead of the search.
Verify ==
  /\ ui = "main" /\ cli.command = "verify" /\ cli.valid
  /\ Exit("passed") \/ Exit("failed")
  /\ UNCHANGED <<vars, cli, machine, screen, seen>>

Launch ==
  /\ ui = "main" /\ cli.command = "search" /\ cli.valid
  /\ IF Refused(cli, machine) THEN Exit("refused")
                              ELSE ui' = "construct" /\ UNCHANGED exit
  /\ UNCHANGED <<vars, cli, machine, screen, seen>>

Construct ==
  /\ ui = "construct"
  /\ Spawn \/ Started
  /\ UNCHANGED frontVars

\* --json calls finish() at once; otherwise the TUI takes over the terminal.
Constructed ==
  /\ ui = "construct" /\ handle = "running"
  /\ ui' = IF cli.json THEN "finish" ELSE "enter"
  /\ UNCHANGED <<vars, cli, machine, screen, seen, exit>>

\* `?` on a terminal operation: run_tui_loop returns at once, and main exits
\* with "TUI error".  The terminal stays as it is, or on the alternate screen
\* when only leaving that fails.
TuiFails ==
  /\ IoMayFail /\ ui \in {"enter", "alternate", "draw", "poll", "leave", "quit"}
  /\ Exit("tui error")
  /\ screen' \in {screen} \cup
       (IF ui \in {"leave", "quit"} THEN {screen \ {"raw"}} ELSE {})
  /\ UNCHANGED <<vars, cli, machine, seen>>

EnterRaw ==
  /\ ui = "enter"
  /\ screen' = {"raw"} /\ ui' = "alternate"
  /\ UNCHANGED <<vars, cli, machine, seen, exit>>

EnterAlternate ==
  /\ ui = "alternate"
  /\ screen' = screen \cup {"alt"} /\ ui' = "sample"
  /\ UNCHANGED <<vars, cli, machine, seen, exit>>

\* What is_done() may return: the Relaxed load may miss a store.
is_done == {found} \cup (IF StaleReads THEN {FALSE} ELSE {})

\* The top of the loop; stats() is read for display only.
Sample ==
  /\ ui = "sample"
  /\ seen' \in is_done
  /\ ui' = "draw"
  /\ UNCHANGED <<vars, cli, machine, screen, exit>>

AfterDraw_Polls == "poll"
AfterDraw_Finishes == "finish"
AfterDraw == IF seen THEN "finish" ELSE "poll"

Draw ==
  /\ ui = "draw"
  /\ ui' = AfterDraw
  /\ UNCHANGED <<vars, cli, machine, screen, seen, exit>>

\* 50 ms without a key, or another key than q or Ctrl-C.
Tick ==
  /\ ui = "poll"
  /\ ui' = "sample"
  /\ UNCHANGED <<vars, cli, machine, screen, seen, exit>>

KeyQuit ==
  /\ ui = "poll"
  /\ ui' = "quit"
  /\ UNCHANGED <<vars, cli, machine, screen, seen, exit>>

Restored_RawOnly == screen \ {"raw"}
Restored == {}

Quit ==
  /\ ui = "quit"
  /\ screen' = Restored
  /\ Exit("quit")
  /\ UNCHANGED <<vars, cli, machine, seen>>

CallFinish ==
  /\ ui = "finish"
  /\ BeginFinish
  /\ ui' = "finishing"
  /\ UNCHANGED <<cli, machine, screen, seen, exit>>

Finishing ==
  /\ ui = "finishing"
  /\ FinishStep
  /\ UNCHANGED frontVars

\* join().unwrap() on a thread that panicked.
MainPanics ==
  /\ ui = "finishing" /\ handle = "panicked"
  /\ Exit("panic")
  /\ UNCHANGED <<vars, cli, machine, screen, seen>>

Finished ==
  /\ ui = "finishing" /\ handle = "done"
  /\ ui' = IF cli.json THEN "report" ELSE "leave"
  /\ UNCHANGED <<vars, cli, machine, screen, seen, exit>>

Leave ==
  /\ ui = "leave"
  /\ screen' = Restored
  /\ ui' = "report"
  /\ UNCHANGED <<vars, cli, machine, seen, exit>>

Report ==
  /\ ui = "report"
  /\ Exit(IF outcome.ok THEN "key" ELSE "no match")
  /\ UNCHANGED <<vars, cli, machine, screen, seen>>

\* println! and eprintln! panic when the stream cannot be written to.
ReportFails ==
  /\ IoMayFail /\ ui = "report"
  /\ Exit("unwritten")
  /\ UNCHANGED <<vars, cli, machine, screen, seen>>

Engine ==
  /\ ui # "exited"
  /\ \E w \in Threads : ThreadStep(w)
  /\ UNCHANGED frontVars

Exited == ui = "exited" /\ UNCHANGED fvars

MainStep ==
  \/ RunBench \/ RejectPrefix \/ Verify \/ Launch \/ Construct \/ Constructed
  \/ EnterRaw \/ EnterAlternate \/ Sample \/ Draw \/ Tick \/ Quit \/ CallFinish \/ Finishing \/ MainPanics
  \/ Finished \/ Leave \/ Report

SearchingOn == ui # "exited" /\ UNCHANGED frontVars /\ \E w \in Threads : BoundReached(w)

FNext == MainStep \/ KeyQuit \/ TuiFails \/ ReportFails \/ Engine \/ SearchingOn \/ Exited

FSpec == FInit /\ [][FNext]_fvars

(***************************************************************************)
(* Fairness: the main thread and every worker keep running, and a store    *)
(* becomes visible in finite time.  No key need ever be pressed.           *)
(***************************************************************************)
Reads(w) == handle # "panicked" /\ (CpuStop(w) \/ GpuStop(w))

FFairness ==
  /\ WF_fvars(MainStep)
  /\ SF_fvars(Sample /\ seen')
  /\ \A w \in Threads :
       /\ WF_fvars(ui # "exited" /\ ThreadStep(w) /\ UNCHANGED frontVars)
       /\ SF_fvars(ui # "exited" /\ Reads(w) /\ UNCHANGED frontVars)

FFairSpec == FSpec /\ FFairness

-----------------------------------------------------------------------------
(***************************************************************************)
(* Properties.                                                             *)
(***************************************************************************)

\* Ends that come before a search is launched.
Unlaunched == {"benched", "bench failed", "bad prefix", "passed", "failed", "refused"}

\* Type invariant.
FTypeOK ==
  /\ TypeOK
  /\ cli \in Clis /\ machine \in Machines
  /\ ui \in {"main", "construct", "enter", "alternate", "sample", "draw", "poll",
             "quit", "finish", "finishing", "leave", "report", "exited"}
  /\ screen \subseteq {"raw", "alt"}
  /\ seen \in BOOLEAN
  /\ exit \in {"none", "benched", "bench failed", "bad prefix", "passed", "failed",
               "refused", "quit", "tui error", "panic", "key", "no match", "unwritten"}
  /\ (exit = "none") <=> (ui # "exited")

\* Where main is, and what it has done to the engine: nothing before the search
\* is launched, joins only in "finishing", and a handle that is done afterwards.
EngineAt ==
  /\ ui = "main" \/ exit \in Unlaunched => handle = "starting" /\ spawned = 0
  /\ ui = "construct" => handle \in {"starting", "running"}
  /\ ui \in {"enter", "alternate", "sample", "draw", "poll", "quit", "finish"}
     \/ exit = "quit" => handle = "running"
  /\ ui = "finishing" => handle \in {"joining", "done", "panicked"}
  /\ ui \in {"leave", "report"} \/ exit \in {"key", "no match", "unwritten"} =>
       handle = "done"
  /\ exit = "tui error" => handle \in {"running", "done"}
  /\ exit = "panic" => handle = "panicked"
  /\ exit = "key" => outcome.ok
  /\ exit = "no match" => ~outcome.ok
  /\ handle = "panicked" => \E w \in Threads : pc[w] = "panicked"

\* The loop leaves for finish() when it has seen a hit, and polls when not.
LoopOK ==
  /\ seen => found /\ ~cli.json
  /\ ui \in {"enter", "alternate", "sample", "draw", "poll", "quit", "leave"}
     \/ exit \in {"quit", "tui error"} => ~cli.json
  /\ ui \in {"poll", "quit"} \/ exit = "quit" => ~seen
  /\ ui \in {"finish", "finishing", "leave", "report"} => seen \/ cli.json

\* The terminal is as main found it, except inside the interactive loop.
TerminalOK ==
  \/ ui \in {"main", "construct", "enter", "report"}
  \/ ui \in {"finish", "finishing"} /\ cli.json
  \/ ui = "exited" /\ exit \notin {"tui error", "panic"}
  => screen = {}

\* The engine was asked for what the command line says, unless it was refused.
RequestHonest ==
  /\ request = RequestOf(cli, machine)
  /\ ui \notin {"main", "exited"} \/ handle # "starting" => ~Refused(cli, machine)

\* The inductive invariant.
FInv == FTypeOK /\ IInv /\ EngineAt /\ LoopOK /\ TerminalOK /\ RequestHonest

\* Exit code 0 comes with a genuine key, after every thread has returned; "no
\* match" is reported only when nothing was found, however the polling of
\* `found` and the publication of `result` interleave.
ExitCodeHonest ==
  /\ exit = "key" => /\ outcome.ok /\ Genuine(outcome.answer)
                     /\ \A w \in 1..Total : pc[w] = "returned"
  /\ exit = "no match" => ~found /\ \A w \in 1..Total : pc[w] = "returned"

\* A key that was found reaches the user, unless the user quit before the loop
\* had seen the hit, a terminal operation or a write failed, or a worker died:
\* no order of the hit, the polls, the key press and the joins loses it.
KeyDelivered ==
  ui = "exited" /\ found =>
    \/ exit = "key"
    \/ exit = "quit" /\ ~cli.json /\ ~seen
    \/ exit = "tui error" /\ ~cli.json
    \/ exit = "unwritten" /\ outcome.ok
    \/ exit = "panic" /\ \E w \in Threads : pc[w] = "panicked"

\* Only a failing terminal operation or a panic leaves the terminal in raw mode
\* or on the alternate screen.
ScreenRestored == ui = "exited" /\ screen # {} => exit \in {"tui error", "panic"}

\* The interactive loop enters the blocking finish() only after a hit, so the
\* display is never frozen by a search that goes on.
NeverBlocksOnSearch == handle = "joining" /\ ~cli.json => found

\* The mode is the one asked for, on every machine: a search has workers of
\* both kinds unless a flag or a missing GPU rules one out (or -t 0 is given).
ModeHonoured ==
  handle # "starting" =>
    /\ cli.gpu_only => request.cpu = 0 /\ request.gpu > 0
    /\ request.gpu > 0 <=> ~cli.cpu_only /\ machine.build # "cpu" /\ machine.opens
    /\ ~cli.gpu_only /\ cli.threads # 0 => request.cpu > 0

AllStopped == \A w \in 1..Total : Stopped(w)

\* A hit ends the program, whichever way; the loop cannot miss it for ever.
HitEndsProgram == found ~> ui = "exited"

\* --json: the program ends when every thread has stopped, hit or no hit.
JsonEnds == (cli.json /\ handle = "joining" /\ AllStopped) ~> ui = "exited"

\* SearchError's doc comment: a search that ends with every GPU worker having
\* errored out returns an error.  The interactive loop waits for `found` only.
ErrorsAreReported == (handle = "running" /\ AllStopped) ~> ui = "exited"
=============================================================================
