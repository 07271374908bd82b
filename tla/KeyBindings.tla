----------------------------- MODULE KeyBindings -----------------------------
(***************************************************************************)
(* Who gets a key: libswc/keyboard.c offers each press to swc's own        *)
(* bindings, to wm/river_wm.c's observer with the key bindings of the      *)
(* window manager, and to the focused client, and routes the release to    *)
(* whoever took the press.  The client with the focus is told what is down *)
(* as it gets it.  What the window manager is to be told waits in a queue  *)
(* for the next manage sequence.                                           *)
(*                                                                         *)
(* A keysym is abstracted to the set of keys that produce it, with or      *)
(* without shift; lock keys, layouts and failed allocations are left out,  *)
(* and the window manager is one client at a time.  The definitions every  *)
(* specification has are named for the keys here, since RiverProofs        *)
(* extends this module beside another.                                     *)
(***************************************************************************)
EXTENDS Naturals, Sequences

CONSTANTS
    Keys,           \* evdev key codes
    ModKeys,        \* those that hold a modifier down
    SwcKeys,        \* the keys of swc's own bindings,
    SwcMods,        \* and the modifiers these want
    Bindings,       \* river_xkb_binding_v1 objects a manager may create
    Triggers,       \* [Bindings -> SUBSET Keys]: the keys that produce its keysym
    Wants,          \* [Bindings -> SUBSET ModKeys]: its modifiers
    Consumed,       \* [Keys -> SUBSET ModKeys]: used up to produce the keysym
    NoKey, NoBinding,
    MaxEvents       \* bound: events queued for the manager

ASSUME KeysAssumption ==
    /\ ModKeys \subseteq Keys /\ SwcKeys \subseteq Keys /\ SwcMods \subseteq ModKeys
    /\ Triggers \in [Bindings -> SUBSET Keys]
    /\ Wants \in [Bindings -> SUBSET ModKeys]
    /\ Consumed \in [Keys -> SUBSET ModKeys]
    /\ NoKey \notin Keys /\ NoBinding \notin Bindings
    /\ MaxEvents \in Nat \ {0}

VARIABLES
    handler,        \* [Keys -> who took the press, or "up"]: keyboard->keys
    clientKeys,     \* keyboard->client_keys
    modifiers,      \* keyboard->modifiers
    lastModifiers,  \* observers_last_modifiers
    focused,        \* keyboard->focus.active: a client with a wl_keyboard has the focus
    heardKeys,      \* the keys that client believes down,
    heardMods,      \* and the modifiers it was last told
    installed,      \* the manager's observer is on keyboard->handlers
    managed,        \* a window manager is connected
    keyBindings,    \* wm.key_bindings, oldest first
    enabled,        \* those with binding->enabled
    held,           \* [Bindings -> Keys or NoKey]: held, held_keycode
    xkbSeat,        \* wm.xkb_seat is not NULL
    eatNext,        \* wm.eat_next_key
    watched,        \* wm.watched_modifiers
    pending,        \* pending_binding_events
    told            \* history: bindings the manager was last told are pressed

clientVars == <<focused, heardKeys, heardMods>>
keyboardVars == <<handler, clientKeys, modifiers, lastModifiers, clientVars>>
bindingVars == <<keyBindings, enabled, held>>
seatVars == <<xkbSeat, eatNext, watched>>
keysVars == <<keyboardVars, installed, managed, bindingVars, seatVars, pending, told>>

Takers == {"swc", "observer", "client"}
BindingEvents == [kind : {"pressed", "released", "stop_repeat"}, binding : Bindings]
SeatEvents == [kind : {"ate_unbound_key", "modifiers_update"}, binding : {NoBinding}]
InUse == {keyBindings[i] : i \in DOMAIN keyBindings}

KeysTypeOK ==
    /\ handler \in [Keys -> Takers \cup {"up"}]
    /\ clientKeys \subseteq Keys
    /\ modifiers \subseteq ModKeys /\ lastModifiers \subseteq ModKeys
    /\ focused \in BOOLEAN /\ heardKeys \subseteq Keys /\ heardMods \subseteq ModKeys
    /\ installed \in BOOLEAN /\ managed \in BOOLEAN
    /\ keyBindings \in Seq(Bindings)
    /\ \A i, j \in DOMAIN keyBindings : i # j => keyBindings[i] # keyBindings[j]
    /\ enabled \subseteq InUse /\ told \subseteq InUse
    /\ held \in [Bindings -> Keys \cup {NoKey}]
    /\ \A b \in Bindings \ InUse : held[b] = NoKey
    /\ xkbSeat \in BOOLEAN /\ eatNext \in BOOLEAN
    /\ watched \subseteq ModKeys
    /\ pending \in Seq(BindingEvents \cup SeatEvents)
    /\ ~managed => keyBindings = <<>> /\ ~xkbSeat
    /\ ~xkbSeat => ~eatNext /\ watched = {}

KeysInit ==
    /\ handler = [k \in Keys |-> "up"]
    /\ clientKeys = {} /\ modifiers = {} /\ lastModifiers = {}
    /\ focused = FALSE /\ heardKeys = {} /\ heardMods = {}
    /\ installed = FALSE /\ managed = FALSE
    /\ keyBindings = <<>> /\ enabled = {} /\ held = [b \in Bindings |-> NoKey]
    /\ xkbSeat = FALSE /\ eatNext = FALSE /\ watched = {}
    /\ pending = <<>> /\ told = {}

-----------------------------------------------------------------------------
\* The entries of a list that are in S, in their order, as wl_list_for_each() meets
\* them.
Among(s, S) ==
    LET met[n \in 0..Len(s)] ==
            IF n = 0 THEN <<>>
            ELSE IF s[n] \in S THEN Append(met[n - 1], s[n]) ELSE met[n - 1]
    IN met[Len(s)]

\* queue_binding_event(), for one kind of event and these bindings in turn.
Events(kind, bindings) == [i \in DOMAIN bindings |-> [kind |-> kind, binding |-> bindings[i]]]

\* Events join the queue at its end; scheduling the sequence is ManageSequence's.
Queue(events) ==
    /\ Len(pending) + Len(events) <= MaxEvents
    /\ pending' = pending \o events

\* observer_handle_modifiers(): the observer is called when the mask changes, and
\* compares it with the one it saw last.
Observed(mods) == installed /\ mods # modifiers /\ mods # lastModifiers

\* binding_observe_modifiers(): what it queues when a watched modifier changed.
WatchedUpdate(mods) ==
    LET changed == (mods \ lastModifiers) \cup (lastModifiers \ mods)
    IN IF changed \cap watched # {} THEN Events("modifiers_update", <<NoBinding>>) ELSE <<>>

\* client_handle_modifiers()
TellModifiers(mods) == heardMods' = IF focused /\ mods # modifiers THEN mods ELSE heardMods

\* The tail of keyboard_handle_key(): the handlers of a mask that changed.
UpdateModifiers(mods, events) ==
    /\ modifiers' = mods
    /\ lastModifiers' = IF Observed(mods) THEN mods ELSE lastModifiers
    /\ TellModifiers(mods)
    /\ Queue(events \o (IF Observed(mods) THEN WatchedUpdate(mods) ELSE <<>>))

\* binding_matches(): modifiers are compared without those the keysym consumed.
BindingMatches(b, k) == b \in enabled /\ k \in Triggers[b] /\ Wants[b] = modifiers \ Consumed[k]

\* The first match on the list, if any.
Matching(k) == Among(keyBindings, {b \in enabled : BindingMatches(b, k)})
Match(k) == IF Matching(k) = <<>> THEN NoBinding ELSE Head(Matching(k))

HeldBut(match) == Among(keyBindings, {b \in InUse \ {match} : held[b] # NoKey})
HeldBy(keys) == Among(keyBindings, {b \in InUse : held[b] \in keys})

\* The handlers on the list, in their order: swc's bindings first, the client last.
Taker(k) ==
    CASE k \in SwcKeys /\ modifiers = SwcMods -> "swc"
      [] (k \notin SwcKeys \/ modifiers # SwcMods)
           /\ installed /\ (eatNext \/ Match(k) # NoBinding) -> "observer"
      [] OTHER -> "client"

\* What binding_observe_key() queues for a press: other bindings stop repeating,
\* and the match is pressed, or the key was eaten for nobody.
PressEvents(match, taker) ==
    Events("stop_repeat", HeldBut(match))
    \o CASE match # NoBinding -> Events("pressed", <<match>>)
         [] match = NoBinding /\ taker = "observer" -> Events("ate_unbound_key", <<NoBinding>>)
         [] OTHER -> <<>>

\* A press of a key that is not down already; binding_observe_key() and
\* client_handle_key() run inside it.
Press(k) ==
    LET taker == Taker(k)
        observed == installed /\ taker # "swc"
        match == IF observed THEN Match(k) ELSE NoBinding
        given == IF taker = "client" THEN {k} ELSE {}
    IN /\ handler[k] = "up"
       /\ handler' = [handler EXCEPT ![k] = taker]
       /\ clientKeys' = clientKeys \cup given
       /\ heardKeys' = IF focused THEN heardKeys \cup given ELSE heardKeys
       /\ held' = IF match = NoBinding THEN held ELSE [held EXCEPT ![match] = k]
       /\ eatNext' = (eatNext /\ taker # "observer")
       /\ UpdateModifiers(modifiers \cup ({k} \cap ModKeys),
                          IF observed THEN PressEvents(match, taker) ELSE <<>>)
       /\ UNCHANGED <<focused, installed, managed, keyBindings, enabled, xkbSeat, watched, told>>

Taken(by) == {k \in Keys : handler[k] = by}

\* observer_handle_key() of a release: the binding is found by the key that holds
\* it (no two are held by one).
ObserverLetsGo(keys) ==
    held' = [b \in Bindings |-> IF held[b] \in keys THEN NoKey ELSE held[b]]

\* client_handle_key() of a release: the key is crossed out and the client told.
ClientLetsGo(keys) ==
    /\ clientKeys' = clientKeys \ keys
    /\ heardKeys' = heardKeys \ keys

\* What a release does to who took the press.
LetGo(observed, clients) == ObserverLetsGo(observed) /\ ClientLetsGo(clients)

\* Fault: the release goes to whoever would take the key now.
ReleaseByMatch(k) ==
    /\ handler[k] # "up"
    /\ LetGo({k} \cap {j \in Keys : Taker(j) = "observer"},
             {k} \cap {j \in Keys : Taker(j) = "client"})
    /\ handler' = [handler EXCEPT ![k] = "up"]
    /\ UpdateModifiers(modifiers \ {k}, Events("released", HeldBy({k} \cap Taken("observer"))))
    /\ UNCHANGED <<focused, installed, managed, keyBindings, enabled, seatVars, told>>

\* A release goes to the handler that took the press.
Release(k) ==
    /\ handler[k] # "up"
    /\ LetGo({k} \cap Taken("observer"), {k} \cap Taken("client"))
    /\ handler' = [handler EXCEPT ![k] = "up"]
    /\ UpdateModifiers(modifiers \ {k}, Events("released", HeldBy({k} \cap Taken("observer"))))
    /\ UNCHANGED <<focused, installed, managed, keyBindings, enabled, seatVars, told>>

\* Fault: the keys are forgotten without telling who took them.
ResetSilently ==
    /\ handler' = [k \in Keys |-> "up"]
    /\ clientKeys' = {}
    /\ modifiers' = {}
    /\ UNCHANGED <<lastModifiers, clientVars, installed, managed, bindingVars, seatVars, told,
                   pending>>

\* keyboard_reset(), when the session loses its input devices: each taker hears a
\* release, and the modifiers are dropped without running a handler.
Reset ==
    /\ LetGo(Taken("observer"), Taken("client"))
    /\ handler' = [k \in Keys |-> "up"]
    /\ modifiers' = {}
    /\ Queue(Events("released", HeldBy(Taken("observer"))))
    /\ UNCHANGED <<lastModifiers, focused, heardMods, installed, managed, keyBindings, enabled,
                   seatVars, told>>

\* enter(): a client with a wl_keyboard gets the focus, or the focused client gets
\* its wl_keyboard.  It is told the modifiers and the keys that are the clients'.
Enter ==
    /\ focused' = TRUE
    /\ heardKeys' = clientKeys
    /\ heardMods' = modifiers
    /\ UNCHANGED <<handler, clientKeys, modifiers, lastModifiers, installed, managed, bindingVars,
                   seatVars, pending, told>>

\* leave(): to the client, nothing is down any more.
Leave ==
    /\ focused
    /\ focused' = FALSE /\ heardKeys' = {} /\ heardMods' = {}
    /\ UNCHANGED <<handler, clientKeys, modifiers, lastModifiers, installed, managed, bindingVars,
                   seatVars, pending, told>>

-----------------------------------------------------------------------------
(* The window manager *)

Connect ==
    /\ ~managed
    /\ managed' = TRUE
    /\ UNCHANGED <<keyboardVars, installed, bindingVars, seatVars, pending, told>>

GetXkbBinding(b) ==
    /\ managed /\ b \notin InUse
    /\ keyBindings' = Append(keyBindings, b)
    /\ UNCHANGED <<keyboardVars, installed, managed, enabled, held, seatVars, pending, told>>

\* ensure_keyboard_observer() and swc_add_keyboard_observer(): the first call of all
\* puts the observer before the client and takes over the mask as it is.
EnsureKeyboardObserver ==
    /\ installed' = TRUE
    /\ lastModifiers' = IF installed THEN lastModifiers ELSE modifiers

\* binding_register()
Enable(b) ==
    /\ b \in InUse
    /\ enabled' = enabled \cup {b}
    /\ EnsureKeyboardObserver
    /\ UNCHANGED <<handler, clientKeys, modifiers, clientVars, managed, keyBindings, held,
                   seatVars, pending, told>>

\* Fault: disabling a binding lets go of the key that holds it.
DisableAndForget(b) ==
    /\ b \in enabled
    /\ enabled' = enabled \ {b}
    /\ held' = [held EXCEPT ![b] = NoKey]
    /\ UNCHANGED <<keyboardVars, installed, managed, keyBindings, seatVars, pending, told>>

\* binding_unregister(): a key that holds the binding goes on holding it.
Disable(b) ==
    /\ b \in enabled
    /\ enabled' = enabled \ {b}
    /\ UNCHANGED <<keyboardVars, installed, managed, keyBindings, held, seatVars, pending, told>>

\* drop_binding_events()
DropEvents(bindings) ==
    Among(pending, {e \in BindingEvents \cup SeatEvents : e.binding \notin bindings})

\* binding_resource_destroy(), for one binding or for all of a client's.
DestroyBindings(bindings) ==
    /\ keyBindings' = Among(keyBindings, Bindings \ bindings)
    /\ enabled' = enabled \ bindings
    /\ held' = [b \in Bindings |-> IF b \in bindings THEN NoKey ELSE held[b]]
    /\ pending' = DropEvents(bindings)
    /\ told' = told \ bindings

DestroyBinding(b) ==
    /\ b \in InUse
    /\ DestroyBindings({b})
    /\ UNCHANGED <<keyboardVars, installed, managed, seatVars>>

GetSeat ==
    /\ managed /\ ~xkbSeat
    /\ xkbSeat' = TRUE
    /\ UNCHANGED <<keyboardVars, installed, managed, bindingVars, eatNext, watched,
                   pending, told>>

\* xkb_seat_resource_destroy()
ForgetSeat == xkbSeat' = FALSE /\ eatNext' = FALSE /\ watched' = {}

DestroySeat ==
    /\ xkbSeat
    /\ ForgetSeat
    /\ UNCHANGED <<keyboardVars, installed, managed, bindingVars, pending, told>>

\* ensure_next_key_eaten and cancel_ensure_next_key_eaten
EnsureNextKeyEaten(eat) ==
    /\ xkbSeat
    /\ eatNext' = eat
    /\ UNCHANGED <<keyboardVars, installed, managed, bindingVars, xkbSeat, watched, pending, told>>

ModifiersWatch(mods) ==
    /\ xkbSeat
    /\ watched' = mods
    /\ UNCHANGED <<keyboardVars, installed, managed, bindingVars, xkbSeat, eatNext,
                   pending, told>>

\* The manager's client disconnects and libwayland destroys all it owns.
Disconnect ==
    /\ managed
    /\ managed' = FALSE
    /\ DestroyBindings(InUse)
    /\ ForgetSeat
    /\ UNCHANGED <<keyboardVars, installed>>

\* What was told, and then these events, leave a binding pressed: it was said to be
\* (before the events, or by the i-th) and no release came after.
SaidPressed(before, events, b) ==
    \E i \in 0..Len(events) :
        /\ IF i = 0 THEN b \in before ELSE events[i] = [kind |-> "pressed", binding |-> b]
        /\ \A j \in i + 1..Len(events) : events[j] # [kind |-> "released", binding |-> b]

\* The last thing the queue says of a binding, or else what was said before.
LastSaid(b) == SaidPressed(told, pending, b)

\* flush_binding_events(), at the start of a manage sequence.
Flush ==
    /\ managed /\ pending # <<>>
    /\ told' = {b \in InUse : LastSaid(b)}
    /\ pending' = <<>>
    /\ UNCHANGED <<keyboardVars, installed, managed, bindingVars, seatVars>>

KeysNext ==
    \/ \E k \in Keys : Press(k) \/ Release(k)
    \/ Reset \/ Enter \/ Leave
    \/ Connect \/ Disconnect \/ Flush
    \/ \E b \in Bindings : GetXkbBinding(b) \/ Enable(b) \/ Disable(b) \/ DestroyBinding(b)
    \/ GetSeat \/ DestroySeat
    \/ \E eat \in BOOLEAN : EnsureNextKeyEaten(eat)
    \/ \E mods \in SUBSET ModKeys : ModifiersWatch(mods)

KeysSpec == KeysInit /\ [][KeysNext]_keysVars

-----------------------------------------------------------------------------
\* The keys the clients were given are those whose press they took, and whoever has
\* the focus believes exactly these down, though the focus moves while keys are held
\* by it or by a binding; the assertion of keyboard_reset() holds.  It knows the
\* modifiers too, unless a reset has dropped them and none has come since
\* (keyboard.c 53-89, 337-388, 562-598, 652-760).
ClientKeysMatch ==
    /\ clientKeys = Taken("client")
    /\ focused => heardKeys = clientKeys /\ (heardMods = modifiers \/ modifiers = {})

\* A binding is held by a key that is down and that the observer took, and no key
\* holds two: the release finds its binding even if modifiers, the enabled bindings
\* or the list have changed since (river_wm.c 899-957).
HeldIsPressed ==
    \A b \in Bindings : held[b] # NoKey =>
        /\ handler[held[b]] = "observer"
        /\ \A c \in Bindings \ {b} : held[c] # held[b]

\* Once the queue is flushed, the manager believes a binding is pressed exactly when a
\* key holds it; and what is queued speaks only of bindings that still exist
\* (river_wm.c 654-671, 711-784, 899-957, 1121-1136).
LastEventTellsHeld ==
    /\ KeysTypeOK
    /\ \A b \in Bindings : b \in InUse => (LastSaid(b) <=> held[b] # NoKey)
    /\ \A i \in DOMAIN pending : pending[i].binding \in InUse \cup {NoBinding}

==============================================================================
