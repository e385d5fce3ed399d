----------------------------- MODULE MCServices -----------------------------
(***************************************************************************)
(* Model checking of three services that share nothing: the socket         *)
(* monitor, the table of paired stations and the memory that survives deep *)
(* sleep.  The behaviours are those of one of them, and the variables of   *)
(* the others keep their initial values.                                   *)
(***************************************************************************)
EXTENDS SockMonitor, TLC

VARIABLES
  service,    \* the service in use, and by whom
  elist, eentry, eopen, eready, ewakes, efds, erun, etask, equeued, ework, emntr, ecbsock,
  pair_stas, pair_conn_only, behind, flash, pair_success, session, admitted, conn, unpairs,
  events, saving, host, steps,
  magic1, magic2, cur_addr, regions, up, pc, ptr

\* The cfg: sockets that are closed only when select no longer has them, and a
\* select that can wait.  Here it gives -1 for want of a semaphore and for sockets
\* that were closed.
Early == INSTANCE SockMonitor WITH
  MaxWakes <- 1, ClosesEarly <- TRUE, SemFails <- TRUE, entrys <- elist, entry <- eentry,
  open <- eopen, ready <- eready, wakes <- ewakes, fds <- efds, run <- erun,
  task <- etask, queued <- equeued, work <- ework, mntr <- emntr, cbsock <- ecbsock

\* An access point with more stations than slots and pair_conn_only, one whose host replaces the
\* table (also with a station twice, with none, and with one too many), and a
\* station.  The event queue holds what the bound lets happen.
Ap == INSTANCE Pairing WITH
  Sta <- {"a", "b", "c"}, Zero <- "zero", SYS_STA_MAX <- 2, IsStaMode <- FALSE,
  EvtMax <- 3, HostLists <- {}, HostSwitch <- FALSE, AutoSave <- TRUE, MaxSteps <- 3

Host == INSTANCE Pairing WITH
  Sta <- {"a", "b"}, Zero <- "zero", SYS_STA_MAX <- 2, IsStaMode <- FALSE,
  EvtMax <- 3, HostSwitch <- TRUE, AutoSave <- TRUE, MaxSteps <- 2,
  HostLists <- {<<"a">>, <<"a", "a">>, <<"zero", "b">>, <<"a", "b", "a">>}

Station == INSTANCE Pairing WITH
  Sta <- {"a", "b"}, Zero <- "zero", SYS_STA_MAX <- 2, IsStaMode <- TRUE,
  EvtMax <- 3, HostLists <- {}, HostSwitch <- FALSE, AutoSave <- TRUE, MaxSteps <- 3

\* Three users that ask for one, two and three words of five.
Sleep == INSTANCE SleepData WITH
  Id <- {"lmac", "umac", "user"}, WordsOf <- "lmac" :> 1 @@ "umac" :> 2 @@ "user" :> 3,
  Start <- 4, Stop <- 9, Watchdog <- FALSE

early == <<elist, eentry, eopen, eready, ewakes, efds, erun, etask, equeued, ework, emntr,
           ecbsock>>
pairing == <<pair_stas, pair_conn_only, behind, flash, pair_success, session, admitted,
             conn, unpairs, events, saving, host, steps>>
sleep == <<magic1, magic2, cur_addr, regions, up, pc, ptr>>

OnPairing == service \in {"ap", "host", "station"}

ServicesInit ==
  /\ service \in {"monitor", "early", "ap", "host", "station", "sleep"}
  /\ Init /\ Early!Init /\ Ap!Init /\ Sleep!Init
  /\ service \in {"host", "station"} \/ (pair_conn_only <=> service = "ap")
  /\ service = "sleep" \/ (cur_addr = 0 /\ \A i \in DOMAIN regions : regions[i] = 0)

ServicesNext ==
  /\ UNCHANGED service
  /\ \/ service = "monitor" /\ Next /\ UNCHANGED <<early, pairing, sleep>>
     \/ service = "early" /\ Early!Next /\ UNCHANGED <<vars, pairing, sleep>>
     \/ service = "ap" /\ Ap!Next /\ UNCHANGED <<vars, early, sleep>>
     \/ service = "host" /\ Host!Next /\ UNCHANGED <<vars, early, sleep>>
     \/ service = "station" /\ Station!Next /\ UNCHANGED <<vars, early, sleep>>
     \/ service = "sleep" /\ Sleep!Next /\ UNCHANGED <<vars, early, pairing>>

\* The fairness of SockMonitor and Pairing, for the one in use.
ServicesSpec ==
  /\ ServicesInit /\ [][ServicesNext]_<<service, vars, early, pairing, sleep>>
  /\ WF_vars(service = "monitor" /\ Task)
  /\ WF_vars(service = "monitor" /\ Work)
  /\ WF_pairing(OnPairing /\ Ap!HandleEvent)
  /\ WF_pairing(OnPairing /\ Ap!Written)
  /\ WF_pairing(OnPairing /\ Ap!PairDone)
  /\ WF_pairing(OnPairing /\ (Host!HostCheck \/ Host!HostWipe \/ Host!HostCopy \/ Host!HostEnd))
-----------------------------------------------------------------------------
\* What outlives the program stays consistent: the table of paired stations and
\* its copy on the flash, whatever is paired, unpaired, replaced by the host or
\* cut off by a power failure (pairsta.c, events.c, syscfg.c), and the regions
\* of dsleepdata.c, which never overlap and never move under a pointer.  The list
\* of the socket monitor is walked in turns also when select fails.
StoresSound ==
  /\ service = "early" => Early!TurnsSound
  /\ service = "ap" => Ap!TableSound /\ Ap!OneSlotEach
  /\ service = "host" => Host!TableSound /\ Host!OnlyPairedConnect
  /\ service = "station" => Station!TableSound
  /\ service = "sleep" => Sleep!MemorySound

\* A connected station keeps its slot, a region its place.
KeptThrough ==
  [][/\ service = "ap" => Ap!ConnectedKept
     /\ service = "sleep" => Sleep!RegionsSurvive]_<<pairing, sleep>>

\* What is ready is served: a readable socket gets its callback, and a pairing
\* reaches the flash.
ServicesServe ==
  /\ service = "monitor" => ReadyServed
  /\ Ap!PairingIsSaved
=============================================================================
