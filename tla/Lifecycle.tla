----------------------------- MODULE Lifecycle ------------------------------
(***************************************************************************)
(* The life of the portal's process (cmd/vire-portal/main.go,              *)
(* internal/server, internal/app), with the remote log store it attaches   *)
(* and closes: configuration, start, requests, shutdown by a signal or by  *)
(* POST /api/shutdown, and the order in which main closes what it opened.  *)
(*                                                                         *)
(*   load --LoadConfig--> boot | exited                                    *)
(*   boot --Boot--> ready --Notify--> wait --Select--> drain               *)
(*   drain --Shutdown--> close --CloseApp--> flush --Return--> exited      *)
(***************************************************************************)
EXTENDS LogStore, Settings

CONSTANTS Source,         \* <<files, env, flags>> the process may be started with
          None,
          Request,        \* HTTP requests, each handled by a goroutine
          MaxShutdowns    \* bound on the requests to POST /api/shutdown

ASSUME LifecycleAssumption == MaxShutdowns \in Nat

\* The files of a source are a sequence.
ASSUME SourceAssumption ==
  /\ None \notin Source
  /\ \A s \in Source : Len(s[1]) \in Nat /\ DOMAIN s[1] = 1..Len(s[1])

VARIABLES main,        \* where main is
          source, cfg, \* until the portal is booted
          dev,         \* IsDevMode
          server,      \* "off", "starting", "listening", "closed"
          attached,    \* logStore # nil
          active,      \* requests being handled
          signalled,   \* sigChan holds a signal
          asked,       \* goroutines of handleShutdown that send on shutdownChan
          requests,    \* how often POST /api/shutdown was accepted
          late,        \* srv.Shutdown ended by its time limit
          graceful,    \* main returned
          lost,        \* history: entries goroutines were sending at the exit
          cut,         \* history: requests being handled at the exit
          queue        \* the channel of arbor's log store writer, without its order

process == <<main, source, cfg, dev, server, attached, active, signalled, asked,
             requests, late, graceful, lost, cut>>
allVars == <<vars, process, queue>>

LifeTypeOK ==
  /\ TypeOK
  /\ main \in {"load", "boot", "ready", "wait", "drain", "close", "flush", "exited"}
  /\ source \in Source \cup {None}
  /\ server \in {"off", "starting", "listening", "closed"}
  /\ {dev, attached, signalled, late, graceful} \subseteq BOOLEAN
  /\ active \subseteq Request /\ cut \subseteq Request
  /\ asked \in 0..MaxShutdowns /\ requests \in 0..MaxShutdowns
  /\ lost \subseteq Entry /\ queue \subseteq Entry

LifeInit ==
  /\ Init
  /\ main = "load"
  /\ source \in Source /\ cfg = None /\ dev = FALSE
  /\ server = "off"
  /\ attached = FALSE
  /\ active = {}
  /\ signalled = FALSE /\ asked = 0 /\ requests = 0
  /\ late = FALSE /\ graceful = FALSE
  /\ lost = {} /\ cut = {} /\ queue = {}
-----------------------------------------------------------------------------
Running == main \notin {"load", "boot", "exited"}

\* os.Exit, or the end of main: every goroutine ends with the process.
ProcessEnds ==
  /\ main' = "exited"
  /\ stage' = "exited"
  /\ lost' = {e \in Entry : \E s \in Sender : e \in Range(sending[s])}
  /\ sending' = [s \in Goroutine |-> <<>>]
  /\ cut' = active
  /\ active' = {}
  /\ server' = "closed"
  /\ UNCHANGED <<buf, closed, timer, accepted, refused, posted>>

LoadConfig ==
  /\ main = "load"
  /\ \/ \E c \in Configure(source[1], source[2], source[3]) :
          cfg' = c /\ main' = "boot" /\ UNCHANGED stage
     \/ /\ Configure(source[1], source[2], source[3]) = {}
        /\ main' = "exited" /\ stage' = "exited" /\ UNCHANGED cfg
  /\ UNCHANGED <<buf, closed, timer, sending, accepted, refused, posted, source, dev, server,
                 attached, active, signalled, asked, requests, late, graceful, lost, cut,
                 queue>>

\* app.New, the log store when there is a service key, server.New, and the goroutine
\* of srv.Start.
Boot ==
  /\ main = "boot"
  /\ main' = "ready"
  /\ attached' = (cfg.serviceKey # "")
  /\ server' = "starting"
  /\ dev' = IsDevMode(cfg)
  /\ source' = None /\ cfg' = None
  /\ UNCHANGED <<vars, active, signalled, asked, requests, late, graceful, lost, cut, queue>>

\* ListenAndServe listens, or fails and ends the process; after a Shutdown it
\* returns at once.
Start ==
  /\ server = "starting"
  /\ \/ server' = "listening" /\ UNCHANGED <<vars, main, active, lost, cut>>
     \/ ProcessEnds
  /\ UNCHANGED <<source, cfg, dev, attached, signalled, asked, requests, late, graceful,
                 queue>>

\* main sleeps, then has signals delivered to sigChan.
Notify ==
  /\ main = "ready"
  /\ main' = "wait"
  /\ UNCHANGED <<vars, source, cfg, dev, server, attached, active, signalled, asked, requests,
                 late, graceful, lost, cut, queue>>

\* SIGINT or SIGTERM: it ends a process that has not asked for it, and is dropped
\* when sigChan, of capacity 1, is full.
Signal ==
  /\ Running
  /\ \/ main = "ready" /\ ProcessEnds /\ UNCHANGED signalled
     \/ main # "ready" /\ signalled' = TRUE /\ UNCHANGED <<vars, main, active, server, lost, cut>>
  /\ UNCHANGED <<source, cfg, dev, attached, asked, requests, late, graceful, queue>>

\* A request arrives at the listening server, and ends.
Begin(r) ==
  /\ server = "listening"
  /\ r \notin active
  /\ active' = active \cup {r}
  /\ UNCHANGED <<vars, main, source, cfg, dev, server, attached, signalled, asked, requests,
                 late, graceful, lost, cut, queue>>

Finish(r) ==
  /\ r \in active
  /\ active' = active \ {r}
  /\ UNCHANGED <<vars, main, source, cfg, dev, server, attached, signalled, asked, requests,
                 late, graceful, lost, cut, queue>>

\* A request, main or another goroutine logs: AttachLogStore has put arbor's log store
\* writer behind the logger, which puts the entry into its channel.
Log(e) ==
  /\ Running /\ attached
  /\ e \notin queue \cup accepted \cup refused
  /\ queue' = queue \cup {e}
  /\ UNCHANGED <<vars, process>>

\* The goroutine of that writer stores what it takes from the channel, by then perhaps
\* after the request has ended or the store was closed.
Write(e) ==
  /\ Running /\ attached
  /\ e \in queue
  /\ Store(e)
  /\ queue' = queue \ {e}
  /\ UNCHANGED process

\* handleShutdown as it would be if its goroutine sent only to a main that waits.
HandleShutdownNow ==
  /\ server = "listening" /\ requests < MaxShutdowns
  /\ dev
  /\ asked' = IF main = "wait" THEN asked + 1 ELSE asked
  /\ requests' = requests + 1
  /\ UNCHANGED <<vars, main, source, cfg, dev, server, attached, active, signalled, late,
                 graceful, lost, cut, queue>>

\* handleShutdown: refused outside dev mode, else answered, and a goroutine sends on
\* the channel, for which it waits for as long as main does not receive.
HandleShutdown ==
  /\ server = "listening" /\ requests < MaxShutdowns
  /\ dev
  /\ asked' = asked + 1
  /\ requests' = requests + 1
  /\ UNCHANGED <<vars, main, source, cfg, dev, server, attached, active, signalled, late,
                 graceful, lost, cut, queue>>

\* Select as it would be if srv.Shutdown left the listener open.
SelectListening ==
  /\ main = "wait"
  /\ \/ signalled /\ signalled' = FALSE /\ UNCHANGED asked
     \/ asked > 0 /\ asked' = asked - 1 /\ UNCHANGED signalled
  /\ main' = "drain"
  /\ UNCHANGED <<vars, source, cfg, dev, server, attached, active, requests, late, graceful,
                 lost, cut, queue>>

\* main receives from sigChan or shutdownChan, and calls srv.Shutdown, which closes
\* the listener.
Select ==
  /\ main = "wait"
  /\ \/ signalled /\ signalled' = FALSE /\ UNCHANGED asked
     \/ asked > 0 /\ asked' = asked - 1 /\ UNCHANGED signalled
  /\ main' = "drain"
  /\ server' = "closed"
  /\ UNCHANGED <<vars, source, cfg, dev, attached, active, requests, late, graceful, lost, cut,
                 queue>>

\* srv.Shutdown returns when no request is active, or after its ten seconds.
Shutdown ==
  /\ main = "drain"
  /\ main' = "close"
  /\ late' = (active # {})
  /\ UNCHANGED <<vars, source, cfg, dev, server, attached, active, signalled, asked, requests,
                 graceful, lost, cut, queue>>

\* application.Close, which stops the catalog watcher.
CloseApp ==
  /\ main = "close"
  /\ main' = "flush"
  /\ UNCHANGED <<vars, source, cfg, dev, server, attached, active, signalled, asked, requests,
                 late, graceful, lost, cut, queue>>

\* CloseLog as it would be if main returned without it.
CloseLogForgotten ==
  /\ main = "flush" /\ stage = "open"
  /\ stage' = "closed" /\ closed' = TRUE
  /\ UNCHANGED <<buf, timer, sending, accepted, refused, posted, process, queue>>

\* logStore.Close, if there is one.
CloseLog ==
  /\ main = "flush" /\ attached
  /\ Close \/ CloseReturns
  /\ UNCHANGED <<process, queue>>

Return ==
  /\ main = "flush"
  /\ attached => stage = "closed"
  /\ ProcessEnds
  /\ graceful' = TRUE
  /\ UNCHANGED <<source, cfg, dev, attached, signalled, asked, requests, late, queue>>

StoreStep ==
  /\ Running /\ attached
  /\ TimerFires \/ TimerFlush \/ \E s \in Goroutine : Send(s)
  /\ UNCHANGED <<process, queue>>

MainStep ==
  \/ LoadConfig \/ Boot \/ Notify \/ Select \/ Shutdown \/ CloseApp \/ CloseLog \/ Return

LifeNext ==
  \/ MainStep \/ Start \/ Signal \/ HandleShutdown \/ StoreStep
  \/ \E r \in Request : Begin(r) \/ Finish(r)
  \/ \E e \in Entry : Log(e) \/ Write(e)

\* main and the goroutine of srv.Start run, the timer fires, and every request of
\* send ends by the client's timeout.
LifeSpec ==
  /\ LifeInit /\ [][LifeNext]_allVars
  /\ WF_allVars(MainStep) /\ WF_allVars(Start)
  /\ WF_allVars(StoreStep /\ TimerFires) /\ WF_allVars(StoreStep /\ TimerFlush)
  /\ \A s \in Goroutine : WF_allVars(StoreStep /\ Send(s))
-----------------------------------------------------------------------------
\* The portal starts with the settings its sources give it, the strongest one for
\* every setting, and refuses to start only for a bad file or for settings that
\* Validate would refuse if they were read that way.
SettingsAsTold ==
  LET told == [s \in Setting |-> Strongest(source[1], source[2], source[3], s)]
      bad == \E i \in DOMAIN source[1] : source[1][i] = Bad
  IN  source # None =>
        /\ main = "boot" => ~bad /\ cfg = told
        /\ main = "exited" => bad \/ ~Valid(told)

\* POST /api/shutdown, once accepted, ends the process, even when it arrives before
\* main waits for it, twice, or together with a signal.
ShutdownHonoured == (requests > 0) ~> (main = "exited")

\* When main returns, every log entry the store accepted has been posted, or was
\* being sent by a goroutine of a flush: nothing stays behind in the buffer.
OnlyInFlightLost ==
  graceful => \A e \in accepted : posted[e] = 1 \/ e \in lost

\* When main returns, no request is cut off, unless it has outlived the ten seconds that
\* srv.Shutdown gives it: also when the shutdown comes before the listener is up or while
\* requests arrive, none begins once main has stopped waiting for them.
RequestsAnswered == graceful /\ ~late => cut = {}
=============================================================================
