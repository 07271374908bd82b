------------------------------ MODULE Session ------------------------------
(***************************************************************************)
(* The session: the launcher (launch/launch.c), which owns the terminal and *)
(* opens the devices, and the compositor that asks it for them              *)
(* (libswc/launch.c, swc.c, seat.c).  They are two processes with a socket  *)
(* between them, and the compositor waits for an answer inside whatever     *)
(* asked: notices that arrive before the answer are served there and then,  *)
(* so that an activation may run inside of another.                         *)
(*                                                                          *)
(* What the compositor is in the middle of is its stack, a sequence of      *)
(* frames, the innermost last: "start" is swc_initialize, "tell" the        *)
(* emission of an event of the session to its listeners, "open" libinput    *)
(* opening the devices of the seat, "wait" send_request.  libinput is       *)
(* external: it opens every device when it is enabled or resumed, forgets   *)
(* them when it is suspended, and resumes only what is suspended.           *)
(* Repaint has what the events do to the screens.                           *)
(***************************************************************************)
EXTENDS Naturals, Sequences, FiniteSets

CONSTANTS
    Devices,        \* input devices
    MaxInputs,      \* ARRAY_LENGTH(input_fds)
    MaxNotices,     \* bound: signals and notices on their way
    MaxFrames       \* bound: frames of the stack beyond which the terminal stays

ASSUME SessionAssumption ==
    /\ MaxInputs \in Nat /\ MaxNotices \in Nat /\ MaxFrames \in Nat
    /\ {"drm", "vt"} \cap Devices = {}

VARIABLES
    terminal,   \* "ours", "away" once the launcher has let it go, "restored" by cleanup()
    signals,    \* the pipe of handle_signal: "release", "acquire" and "child"
    round,      \* what poll() found and run() has not served yet
    granted,    \* active in the launcher
    inputs,     \* num_input_fds
    requests,   \* to the launcher
    messages,   \* from the launcher
    active,     \* swc.active
    joined,     \* the listeners of swc.event_signal, in order
    told,       \* what each listener was told last
    enabled,    \* libinput is not suspended
    plugged,    \* devices there are
    devices,    \* devices libinput has opened, each file "works" or is "revoked"
    refused,    \* history: devices refused because the launcher's table was full, or
                \* because the terminal was not ours yet when the start opened them
    stack,
    life,       \* of the compositor: it "runs", "ends" with its event loop, or is "gone"
    orphaned    \* history: an inner wait threw away the answer an outer one waits for

launcher == <<terminal, signals, round, granted, inputs>>
library == <<active, joined, told, enabled, devices, refused>>
vars == <<launcher, requests, messages, library, plugged, stack, life, orphaned>>

\* The callback of swc.manager, which swc_activate() runs after the listeners of
\* the signal, is one of them here.
Listeners == {"planes", "compositor", "seat", "manager"}
Targets == Devices \cup {"drm", "vt"}
Request == [serial : Nat, target : Targets]
Answer == {a \in [serial : Nat, target : Targets, file : {"works", "revoked", "none"}, full : BOOLEAN] :
             a.full => a.target \in Devices}
Notice == [notice : {"activate", "deactivate"}]
FrameType == [do : {"start", "tell", "open", "wait"}, on : BOOLEAN, left : Seq(Listeners \cup {"drm", "check"}),
              devices : SUBSET Devices, serial : Nat, target : Targets]

TypeOK ==
    /\ terminal \in {"ours", "away", "restored"} /\ life \in {"runs", "ends", "gone"}
    /\ granted \in BOOLEAN /\ active \in BOOLEAN /\ enabled \in BOOLEAN /\ orphaned \in BOOLEAN
    /\ signals \in Seq({"release", "acquire", "child"})
    /\ round \subseteq {"socket", "signals"}
    /\ inputs \in 0..MaxInputs
    /\ requests \in Seq(Request) /\ messages \in Seq(Answer \cup Notice)
    /\ joined \in Seq(Listeners) /\ told \in [Listeners -> BOOLEAN]
    /\ plugged \subseteq Devices /\ refused \subseteq Devices
    /\ DOMAIN devices \subseteq Devices
    /\ \A d \in DOMAIN devices : devices[d] \in {"works", "revoked"}
    /\ stack \in Seq(FrameType)

Frame(do) == [do |-> do, on |-> FALSE, left |-> <<>>, devices |-> {}, serial |-> 0, target |-> "vt"]
Top == stack[Len(stack)]
Below == SubSeq(stack, 1, Len(stack) - 1)
Doing(do) == stack # <<>> /\ Top.do = do

Starting == [Frame("start") EXCEPT !.left = <<"drm", "planes", "compositor", "seat", "check">>]

\* setup_tty(): the terminal is ours already, or being switched to, or, with -n,
\* left to the user to switch to.
Init ==
    /\ \/ /\ terminal = "ours" /\ granted = TRUE /\ signals = <<>>
          /\ messages = <<[notice |-> "activate"]>>
       \/ /\ terminal = "ours" /\ granted = FALSE /\ signals = <<"acquire">>
          /\ messages = <<>>
       \/ /\ terminal = "away" /\ granted = FALSE /\ signals = <<>>
          /\ messages = <<>>
    /\ round = {} /\ inputs = 0
    /\ requests = <<>>
    /\ active = FALSE /\ joined = <<>> /\ told = [l \in Listeners |-> FALSE]
    /\ enabled = FALSE
    /\ plugged \in SUBSET Devices
    /\ devices = [d \in {} |-> "works"] /\ refused = {}
    /\ stack = <<Starting>>
    /\ life = "runs" /\ orphaned = FALSE

IsNotice(m) == "notice" \in DOMAIN m
Notices == Len(SelectSeq(messages, IsNotice)) + Len(signals)

-----------------------------------------------------------------------------
(* The terminal: the kernel asks before it takes it away, and tells when it is back *)

AskToLeave ==
    IF terminal = "ours" /\ "release" \notin {signals[i] : i \in DOMAIN signals}
    THEN Append(signals, "release") ELSE signals

Leave ==
    /\ Notices < MaxNotices /\ Len(stack) <= MaxFrames
    /\ AskToLeave # signals /\ signals' = AskToLeave
    /\ UNCHANGED <<terminal, round, granted, inputs, requests, messages, library, plugged, stack, life, orphaned>>

Come ==
    /\ Notices < MaxNotices /\ Len(stack) <= MaxFrames
    /\ terminal = "away"
    /\ terminal' = "ours" /\ signals' = Append(signals, "acquire")
    /\ UNCHANGED <<round, granted, inputs, requests, messages, library, plugged, stack, life, orphaned>>

-----------------------------------------------------------------------------
(* The launcher *)

\* poll() in run(); what it found is served before it is asked again.
Poll ==
    /\ round = {} /\ terminal # "restored"
    /\ round' = {x \in {"socket", "signals"} : IF x = "socket" THEN requests # <<>> ELSE signals # <<>>}
    /\ round' # {}
    /\ UNCHANGED <<terminal, signals, granted, inputs, requests, messages, library, plugged, stack, life, orphaned>>

\* Fault: a request that is refused is not answered.
AnswerGranted(r) ==
    /\ messages' = IF r.target \in Devices /\ ~granted THEN messages
                   ELSE Append(messages, [serial |-> r.serial, target |-> r.target,
                                          file |-> "works", full |-> FALSE])
    /\ inputs' = inputs
    /\ signals' = IF r.target = "vt" /\ granted THEN AskToLeave ELSE signals

\* What handle_socket_data() does about a request: input devices only while it is
\* active and has room for them, and every request is answered.
AnswerRequest(r) ==
    LET full == granted /\ inputs = MaxInputs
        ok == r.target = "drm" \/ (r.target \in Devices /\ granted /\ ~full)
    IN /\ messages' = Append(messages, [serial |-> r.serial, target |-> r.target,
                                        file |-> IF ok THEN "works" ELSE "none",
                                        full |-> full /\ r.target \in Devices])
       /\ inputs' = IF ok /\ r.target # "drm" THEN inputs + 1 ELSE inputs
       /\ signals' = IF r.target = "vt" /\ granted THEN AskToLeave ELSE signals

\* handle_socket_data(), from run()
HandleSocketData ==
    /\ "socket" \in round
    /\ round' = round \ {"socket"}
    /\ AnswerRequest(Head(requests))
    /\ requests' = Tail(requests)
    /\ UNCHANGED <<terminal, granted, library, plugged, stack, life, orphaned>>

Revoked(f) == IF f = "works" THEN "revoked" ELSE f

\* Fault: the files stay as they are.
StopNoDevices ==
    /\ devices' = devices /\ messages' = Append(messages, [notice |-> "deactivate"])
    /\ inputs' = 0

\* stop_devices(), after the notice: no input file works any longer, wherever it is.
StopDevices ==
    /\ devices' = [d \in DOMAIN devices |-> Revoked(devices[d])]
    /\ messages' = Append(
         [i \in DOMAIN messages |->
            IF ~IsNotice(messages[i]) /\ messages[i].target \in Devices
            THEN [messages[i] EXCEPT !.file = Revoked(@)] ELSE messages[i]],
         [notice |-> "deactivate"])
    /\ inputs' = 0

\* run(), SIGUSR1: deactivate(), and the kernel may have the terminal.
HandleRelease ==
    /\ round = {"signals"} /\ Head(signals) = "release"
    /\ round' = {} /\ signals' = Tail(signals)
    /\ StopDevices
    /\ granted' = FALSE
    /\ terminal' = "away"
    /\ UNCHANGED <<requests, active, joined, told, enabled, refused, plugged, stack, life, orphaned>>

\* run(), SIGUSR2: activate()
HandleAcquire ==
    /\ round = {"signals"} /\ Head(signals) = "acquire"
    /\ round' = {} /\ signals' = Tail(signals)
    /\ messages' = Append(messages, [notice |-> "activate"])
    /\ granted' = TRUE
    /\ UNCHANGED <<terminal, inputs, requests, library, plugged, stack, life, orphaned>>

NoDevices == [d \in {} |-> "works"]

\* run(), SIGCHLD: cleanup() stops the devices, restores the terminal and exits.
HandleChild ==
    /\ round = {"signals"} /\ Head(signals) = "child"
    /\ round' = {} /\ signals' = <<>> /\ requests' = <<>> /\ messages' = <<>>
    /\ terminal' = "restored" /\ granted' = FALSE /\ inputs' = 0
    /\ UNCHANGED <<library, plugged, stack, life, orphaned>>

-----------------------------------------------------------------------------
(* The compositor: the end *)

\* handle_sigchld() in wm/main.c: the manager it started has exited.
ManagerExits ==
    /\ stack = <<>> /\ life = "runs"
    /\ life' = "ends"
    /\ UNCHANGED <<launcher, requests, messages, library, plugged, stack, orphaned>>

\* wl_display_run() returns, or the process dies wherever it is; nothing stays of it
\* but what the launcher is told and has not read.
Die ==
    /\ life # "gone"
    /\ life' = "gone" /\ signals' = Append(signals, "child")
    /\ stack' = <<>> /\ messages' = <<>>
    /\ active' = FALSE /\ joined' = <<>> /\ told' = [l \in Listeners |-> FALSE] /\ enabled' = FALSE
    /\ devices' = NoDevices /\ refused' = {} /\ orphaned' = FALSE
    /\ UNCHANGED <<terminal, round, granted, inputs, requests, plugged>>

LoopEnds == life = "ends" /\ stack = <<>> /\ Die

-----------------------------------------------------------------------------
(* The compositor: events of the session *)

Tell(on) == [Frame("tell") EXCEPT !.on = on, !.left = Append(joined, "manager")]

\* Fault: notices that arrive before an answer are thrown away.
ServeNone(m, below) ==
    IF IsNotice(m) /\ below = <<>>
    THEN active' = (m.notice = "activate") /\ stack' = Append(below, Tell(m.notice = "activate"))
    ELSE active' = active /\ stack' = below

\* handle_event(): swc_activate(), swc_deactivate(); an answer that nobody waits
\* for here is thrown away.
HandleEvent(m, below) ==
    IF IsNotice(m)
    THEN active' = (m.notice = "activate") /\ stack' = Append(below, Tell(m.notice = "activate"))
    ELSE active' = active /\ stack' = below

\* handle_data(), from the event loop
HandleData ==
    /\ stack = <<>> /\ life = "runs" /\ messages # <<>>
    /\ HandleEvent(Head(messages), stack)
    /\ messages' = Tail(messages)
    /\ UNCHANGED <<launcher, requests, joined, told, enabled, devices, refused, plugged, life, orphaned>>

Opening == [Frame("open") EXCEPT !.devices = plugged]
\* handle_swc_event() of the seat: libinput_suspend() or libinput_resume()
TellSeat(on, below) ==
    /\ enabled' = on
    /\ devices' = IF on THEN devices ELSE NoDevices
    /\ refused' = IF on THEN refused ELSE {}
    /\ stack' = IF on /\ ~enabled THEN Append(below, Opening) ELSE below

\* One listener after the other; the event is over after the last.
TellNext ==
    LET l == Head(Top.left)
        below == IF Len(Top.left) = 1 THEN Below
                 ELSE Append(Below, [Top EXCEPT !.left = Tail(@)])
    IN /\ Doing("tell")
       /\ told' = [told EXCEPT ![l] = Top.on]
       /\ IF l = "seat" THEN TellSeat(Top.on, below)
          ELSE stack' = below /\ UNCHANGED <<enabled, devices, refused>>
       /\ UNCHANGED <<launcher, requests, messages, active, joined, plugged, life, orphaned>>

-----------------------------------------------------------------------------
(* The compositor: requests *)

\* Serials count up; here one is used again when nobody remembers it.
NewSerial ==
    LET used == {requests[i].serial : i \in DOMAIN requests}
                  \cup {messages[i].serial : i \in {j \in DOMAIN messages : ~IsNotice(messages[j])}}
                  \cup {stack[i].serial : i \in DOMAIN stack}
    IN CHOOSE n \in 1..(Cardinality(used) + 1) : n \notin used

\* send_request(), up to its loop
SendRequest(target, below) ==
    /\ requests' = Append(requests, [serial |-> NewSerial, target |-> target])
    /\ stack' = Append(below, [Frame("wait") EXCEPT !.serial = NewSerial, !.target = target])

\* swc_initialize() runs and libinput is not suspended.
Starts == stack[1].do = "start" /\ enabled

\* launch_open_device(), from open_restricted(): the file is libinput's, who keeps
\* the device or gives it up.
TakeFile(m) ==
    LET opened == {m.target} \cap (IF m.file = "none" THEN {} ELSE Devices)
        denied == {m.target} \cap (IF m.file = "none" /\ (m.full \/ Starts) THEN Devices ELSE {})
    IN /\ devices' = [d \in DOMAIN devices \cup opened |->
                        IF d \in opened THEN m.file ELSE devices[d]]
       /\ refused' = (refused \ opened) \cup denied

Awaits(serial) == \E i \in DOMAIN stack : stack[i].do = "wait" /\ stack[i].serial = serial

\* The loop of send_request(): its own answer ends it.  An answer to another request
\* is thrown away, also one that a send_request() further out waits for.
ReadAnswer ==
    LET m == Head(messages)
        own == ~IsNotice(m) /\ m.serial = Top.serial
    IN /\ Doing("wait") /\ messages # <<>>
       /\ messages' = Tail(messages)
       /\ IF own THEN TakeFile(m) /\ stack' = Below /\ UNCHANGED active
                 ELSE HandleEvent(m, stack) /\ UNCHANGED <<devices, refused>>
       /\ orphaned' = (orphaned \/ (~own /\ ~IsNotice(m) /\ Awaits(m.serial)))
       /\ UNCHANGED <<launcher, requests, joined, told, enabled, plugged, life>>

\* libinput opens the devices of the seat, one after the other.
OpenNext ==
    /\ Doing("open")
    /\ \/ \E d \in Top.devices :
            SendRequest(d, Append(Below, [Top EXCEPT !.devices = @ \ {d}]))
       \/ Top.devices = {} /\ stack' = Below /\ UNCHANGED requests
    /\ UNCHANGED <<launcher, messages, library, plugged, life, orphaned>>

\* A device comes or goes while libinput watches; one that comes is opened.
Plug(d) ==
    /\ stack = <<>> /\ life = "runs"
    /\ d \notin plugged
    /\ plugged' = plugged \cup {d}
    /\ IF enabled THEN SendRequest(d, stack) ELSE UNCHANGED <<requests, stack>>
    /\ UNCHANGED <<launcher, messages, library, life, orphaned>>

Unplug(d) ==
    /\ stack = <<>> /\ life = "runs"
    /\ d \in plugged
    /\ plugged' = plugged \ {d}
    /\ devices' = [e \in DOMAIN devices \ {d} |-> devices[e]]
    /\ refused' = refused \ {d}
    /\ UNCHANGED <<launcher, requests, messages, active, joined, told, enabled, stack, life, orphaned>>

\* launch_activate_vt()
ActivateVT == SendRequest("vt", stack)

\* handle_switch_vt()
SwitchVT ==
    /\ stack = <<>> /\ life = "runs" /\ devices # NoDevices
    /\ Notices < MaxNotices
    /\ ActivateVT
    /\ UNCHANGED <<launcher, messages, library, plugged, life, orphaned>>

-----------------------------------------------------------------------------
(* The compositor: swc_initialize() *)

Rest == [Top EXCEPT !.left = Tail(@)]

\* drm_initialize()
StartDrm ==
    /\ Doing("start") /\ Head(Top.left) = "drm"
    /\ SendRequest("drm", Append(Below, Rest))
    /\ UNCHANGED <<launcher, messages, library, plugged, life, orphaned>>

\* A part joins swc.event_signal and knows the session as it is.
Join(l) ==
    /\ Doing("start") /\ Head(Top.left) = l
    /\ joined' = Append(joined, l)
    /\ told' = [told EXCEPT ![l] = active]
    /\ stack' = Append(Below, Rest)
    /\ UNCHANGED <<launcher, requests, messages, active, enabled, devices, refused, plugged, life, orphaned>>

\* primary_plane_initialize(), for the screens of screens_initialize(): the planes
\* are to be set anew, active or not.
StartPlanes == Join("planes")

\* compositor_initialize(): it schedules itself if the session is active.
StartCompositor == Join("compositor")

\* seat_create(), up to libinput_udev_assign_seat() in initialize_libinput()
StartSeat ==
    /\ Doing("start") /\ Head(Top.left) = "seat"
    /\ joined' = Append(joined, "seat")
    /\ told' = [told EXCEPT !["seat"] = active]
    /\ enabled' = TRUE
    /\ stack' = Append(Append(Below, Rest), Opening)
    /\ UNCHANGED <<launcher, requests, messages, active, devices, refused, plugged, life, orphaned>>

\* initialize_libinput(), its tail: a session that is not active suspends.
SuspendIfInactive ==
    /\ Doing("start") /\ Head(Top.left) = "check"
    /\ enabled' = (enabled /\ active)
    /\ devices' = IF active THEN devices ELSE NoDevices
    /\ refused' = IF active THEN refused ELSE {}
    /\ stack' = Below
    /\ UNCHANGED <<launcher, requests, messages, active, joined, told, plugged, life, orphaned>>

Launcher == Poll \/ HandleSocketData \/ HandleRelease \/ HandleAcquire \/ HandleChild
Serving ==
    \/ HandleData \/ TellNext \/ ReadAnswer \/ OpenNext
    \/ StartDrm \/ StartPlanes \/ StartCompositor \/ StartSeat
    \/ SuspendIfInactive \/ LoopEnds
Requesting == SwitchVT \/ \E d \in Devices : Plug(d) \/ Unplug(d)

Next == Leave \/ Come \/ Launcher \/ Serving \/ Requesting \/ ManagerExits \/ Die

\* Both processes run their loops.
Fairness == WF_vars(Launcher) /\ WF_vars(Serving)
Spec == Init /\ [][Next]_vars /\ Fairness

-----------------------------------------------------------------------------
(* Properties *)

Calm == life = "runs" /\ stack = <<>> /\ requests = <<>> /\ messages = <<>> /\ signals = <<>> /\ round = {}

\* An input file works only while the launcher holds the terminal, also one that is
\* still in the socket (launch/launch.c 135-155, 249-253).
GrantedWhileActive ==
    /\ TypeOK
    /\ ~granted =>
         /\ \A d \in DOMAIN devices : devices[d] # "works"
         /\ \A i \in DOMAIN messages :
              IsNotice(messages[i]) \/ messages[i].target \notin Devices
                \/ messages[i].file # "works"

\* When nothing is on its way, the compositor, its listeners and libinput know whose
\* the terminal is, and every device there is works while it is ours, wherever the
\* notices came in between (libswc/launch.c 107-134, swc.c 99-117, seat.c 116-133,
\* 380-435).  Excepted are the devices that were turned away because the launcher's
\* table was full, and those that initialize_libinput() asked for before the terminal
\* was ours: when the first activation finds libinput opening them it resumes what is
\* not suspended, and nobody asks again (seat.c 402, 129, launch/launch.c 261).
AgreedAtRest ==
    Calm =>
      /\ active = (terminal = "ours") /\ granted = active /\ enabled = active
      /\ \A l \in {"planes", "compositor", "seat"} : told[l] = active
      /\ DOMAIN devices = IF active THEN plugged \ refused ELSE {}
      /\ \A d \in DOMAIN devices : devices[d] = "works"

\* Whatever the compositor asked for, it gets its answer and comes back to its event
\* loop; and when it is gone, wherever it was, the terminal is given back
\* (libswc/launch.c 107-134, launch/launch.c 157-184, 515-555).  Excepted is the one
\* answer the code throws away: that of a request in whose wait the session was
\* deactivated and activated again, which waits for devices in turn (launch.c 125).
ComesBack ==
    /\ []<>(stack = <<>> \/ orphaned)
    /\ life = "gone" ~> terminal = "restored"

=============================================================================
