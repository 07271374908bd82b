----------------------------- MODULE Selections -----------------------------
(***************************************************************************)
(* The clipboard: sources and offers (libswc/data.c), the one selection of *)
(* the seat (data_device.c), the clipboard managers that follow it without *)
(* keyboard focus (data_control.c) and the keyboard focus that decides     *)
(* which other client is told (seat.c).                                    *)
(*                                                                         *)
(* MIME types, file descriptors and drag and drop are left out.  A client  *)
(* has at most one device of each kind; the offers that it holds of one    *)
(* source through one device are one.  A source that is destroyed stands   *)
(* for the next one its client creates.                                    *)
(***************************************************************************)
CONSTANTS
    Clients,            \* clients of the compositor
    Readers,            \* those that use wl_data_device
    Managers,           \* those that use data control
    DataSources,        \* wl_data_sources
    ControlSources,     \* ext_data_control_source_v1 objects
    Owner,              \* [Sources -> Clients]
    None                \* no client, no source

Sources == DataSources \cup ControlSources

ASSUME SourceAssumption ==
    /\ DataSources \cap ControlSources = {}
    /\ Owner \in [Sources -> Clients]
    /\ Readers \cup Managers \subseteq Clients
    /\ None \notin Clients
    /\ None \notin Sources
    /\ "untold" \notin Sources

DataDevices == Readers \X {"data"}
ControlDevices == Managers \X {"control"}
DeviceObjects == DataDevices \cup ControlDevices

VARIABLES
    sources,    \* those that exist: struct data
    used,       \* data->used
    taken,      \* history: the sources that became the selection since they exist
    cancelled,  \* history: those told since that they are it no longer
    selection,  \* data_device->selection
    bound,      \* the devices that exist
    heard,      \* [DeviceObjects -> source]: what the last selection event of a device said
    offers,     \* pairs <<device, source>>: the offers clients hold, None once expired
    asked,      \* the source that the last step asked for the bytes
    focus       \* keyboard->focus.client

ofSources == <<sources, used, taken, cancelled>>
selectionVars == <<ofSources, selection, bound, heard, offers, asked, focus>>

SelectionTypeOK ==
    /\ sources \subseteq Sources
    /\ used \subseteq sources /\ taken \subseteq sources /\ cancelled \subseteq sources
    /\ selection \in Sources \cup {None}
    /\ bound \subseteq DeviceObjects
    /\ heard \in [DeviceObjects -> Sources \cup {None, "untold"}]
    /\ offers \subseteq DeviceObjects \X (Sources \cup {None})
    /\ asked \in Sources \cup {None}
    /\ focus \in Clients \cup {None}

SelectionInit ==
    /\ sources = {} /\ used = {} /\ taken = {} /\ cancelled = {}
    /\ selection = None
    /\ bound = {}
    /\ heard = [d \in DeviceObjects |-> "untold"]
    /\ offers = {}
    /\ asked = None
    /\ focus = None

Now == [sources |-> sources, used |-> used, taken |-> taken, cancelled |-> cancelled,
        selection |-> selection, heard |-> heard, offers |-> offers]

Becomes(t) ==
    /\ sources' = t.sources /\ used' = t.used
    /\ taken' = t.taken /\ cancelled' = t.cancelled
    /\ selection' = t.selection
    /\ heard' = t.heard
    /\ offers' = t.offers
    /\ asked' = None

-----------------------------------------------------------------------------
(* Offers *)

\* data_offer_new() and data_control_offer_new(), for the client of each device:
\* the offers know the source, and data_destroy() will find them.
NewOffers(t, devices) ==
    IF t.selection = None THEN t ELSE [t EXCEPT !.offers = @ \cup (devices \X {t.selection})]

\* data_device_offer_selection() and device_send_selection(): each of these
\* devices is given a new offer of the selection and told that it is that, or
\* that there is none.
OfferSelection(t, devices) ==
    [NewOffers(t, devices) EXCEPT
       !.heard = [d \in DeviceObjects |-> IF d \in devices THEN t.selection ELSE @[d]]]

\* handle_data_device_event(): the device of the client with the focus
FocusedDevices == {d \in bound \cap DataDevices : d[1] = focus}

\* Fault: clipboard managers follow the focus like other clients.
ListenersWithFocus == {d \in bound : d[1] = focus}

\* The listeners of data_device->event_signal: the seat, for the client that
\* has the focus, and every data control device.
EventListeners == FocusedDevices \cup (bound \cap ControlDevices)

\* send_event(SELECTION_CHANGED)
SelectionChanged(t) == OfferSelection(t, EventListeners)

\* data_source_cancel()
Cancel(t, s) == IF s = None THEN t ELSE [t EXCEPT !.cancelled = @ \cup {s}]

\* The source, or none, becomes the selection.  The client of a wl_data_source that
\* is set again knows that it is it again; one of a data control source is told
\* once for all.
Choose(t, s) ==
    [t EXCEPT !.selection = s,
              !.taken = @ \cup ({s} \ {None}),
              !.cancelled = @ \ ({s} \cap DataSources)]

\* Fault: the source that was the selection hears nothing.
ReplaceQuietly(t, s) ==
    IF s = t.selection THEN t
    ELSE SelectionChanged(Choose(t, s))

\* data_device_set_selection()
SetSelection(t, s) ==
    IF s = t.selection THEN t
    ELSE SelectionChanged(Choose(Cancel(t, t.selection), s))

\* handle_selection_destroy()
LoseSelection(t) == SelectionChanged([t EXCEPT !.selection = None])

\* The source is freed.
Freed(t, s) == [t EXCEPT !.sources = @ \ {s}, !.used = @ \ {s},
                         !.taken = @ \ {s}, !.cancelled = @ \ {s}]

\* Fault: the offers of a source that is freed are forgotten.
ExpireNothing(t, s) == Freed(t, s)

\* data_destroy(): offers lose their data before it is freed.
Expire(t, s) ==
    [Freed(t, s) EXCEPT !.offers = {<<o[1], IF o[2] = s THEN None ELSE o[2]>> : o \in @}]

\* data_source_mark_used()
MarkUsed(t, s) == [t EXCEPT !.used = @ \cup ({s} \ {None})]

-----------------------------------------------------------------------------
(* Sources *)

\* data_new()
New(t, s) == [t EXCEPT !.sources = @ \cup {s}]

\* data_source_new()
CreateDataSource(s) ==
    /\ s \notin sources
    /\ Becomes(New(Now, s))
    /\ UNCHANGED <<bound, focus>>

\* data_control_source_new()
CreateControlSource(s) ==
    /\ s \notin sources
    /\ Becomes(New(Now, s))
    /\ UNCHANGED <<bound, focus>>

\* wl_resource_destroy() of a source: the listener of the selection runs before
\* data_destroy().
DestroySource(s) ==
    /\ s \in sources
    /\ LET left == IF s = selection THEN LoseSelection(Now) ELSE Now
       IN Becomes(Expire(left, s))
    /\ UNCHANGED <<bound, focus>>

\* wl_data_device.set_selection: set_selection()
SetDataSelection(c, s) ==
    /\ <<c, "data">> \in bound
    /\ s # None => s \in sources /\ Owner[s] = c
    /\ Becomes(SetSelection(Now, s))
    /\ UNCHANGED <<bound, focus>>

\* ext_data_control_device_v1.set_selection: device_set_selection(); a source
\* used before is a protocol error (data_source_mark_used()).
SetControlSelection(c, s) ==
    /\ <<c, "control">> \in bound
    /\ s # None => s \in sources \ used /\ Owner[s] = c
    /\ Becomes(SetSelection(MarkUsed(Now, s), s))
    /\ UNCHANGED <<bound, focus>>

-----------------------------------------------------------------------------
(* Devices, offers and the focus *)

\* wl_data_device_manager.get_data_device: data_device_bind()
GetDataDevice(d) ==
    /\ d \notin bound
    /\ bound' = bound \cup {d}
    /\ Becomes(Now)
    /\ UNCHANGED focus

\* ext_data_control_manager_v1.get_data_device: manager_get_data_device() tells
\* the selection at once.
GetControlDevice(d) ==
    /\ d \notin bound
    /\ bound' = bound \cup {d}
    /\ Becomes(OfferSelection(Now, {d}))
    /\ UNCHANGED focus

\* remove_resource() and device_resource_destroy(): offers made through the
\* device live on.
DestroyDevice(d) ==
    /\ d \in bound
    /\ bound' = bound \ {d}
    /\ Becomes([Now EXCEPT !.heard[d] = "untold"])
    /\ UNCHANGED focus

\* source_send(): the client of the source is asked for the bytes, nobody when the
\* offer has expired.
SourceSend(s) ==
    /\ asked' = s
    /\ UNCHANGED <<ofSources, selection, bound, heard, offers, focus>>

\* offer_receive() and data_control_offer_receive()
Receive(offer) ==
    /\ offer \in offers /\ offer[1] \in DataDevices
    /\ SourceSend(offer[2])

ReceiveControl(offer) ==
    /\ offer \in offers /\ offer[1] \in ControlDevices
    /\ SourceSend(offer[2])

\* The client destroys an offer.
DestroyOffer(offer) ==
    /\ offer \in offers
    /\ Becomes([Now EXCEPT !.offers = @ \ {offer}])
    /\ UNCHANGED <<bound, focus>>

\* handle_keyboard_focus_event()
SetFocus(c) ==
    /\ c # focus
    /\ focus' = c
    /\ Becomes(OfferSelection(Now, {d \in bound \cap DataDevices : d[1] = c}))
    /\ UNCHANGED bound

SelectionNext ==
    \/ \E s \in DataSources : CreateDataSource(s)
    \/ \E s \in ControlSources : CreateControlSource(s)
    \/ \E s \in Sources : DestroySource(s)
    \/ \E c \in Readers, s \in DataSources \cup {None} : SetDataSelection(c, s)
    \/ \E c \in Managers, s \in ControlSources \cup {None} : SetControlSelection(c, s)
    \/ \E d \in DataDevices : GetDataDevice(d)
    \/ \E d \in ControlDevices : GetControlDevice(d)
    \/ \E d \in DeviceObjects : DestroyDevice(d)
    \/ \E offer \in offers : Receive(offer) \/ ReceiveControl(offer) \/ DestroyOffer(offer)
    \/ \E c \in Clients \cup {None} : SetFocus(c)

SelectionSpec == SelectionInit /\ [][SelectionNext]_selectionVars

-----------------------------------------------------------------------------
(* Properties *)

\* Whoever reads from an offer, however long after the source was replaced, lost
\* its client or was destroyed while it was the selection, asks a source that
\* exists or nobody (data_destroy(), libswc/data.c 211-236, 65-114).
OffersAreAlive ==
    /\ SelectionTypeOK
    /\ asked \in sources \cup {None}
    /\ \A offer \in offers : offer[2] \in sources \cup {None}

\* A clipboard manager has been told the selection as it is, and so has the
\* client with the keyboard focus unless it got its device after the focus, also
\* when the selection ends because its source does (libswc/data_device.c 46-97,
\* data_control.c 70-104, 173-207, seat.c 79-114).
ReadersKnow ==
    /\ selection \in sources \cup {None}
    /\ \A d \in bound \cap ControlDevices : heard[d] = selection
    /\ \A d \in FocusedDevices : heard[d] \in {selection, "untold"}

\* A source that became the selection is told when it ceases to be, whichever of
\* the two protocols the next one comes through, and a data control source that
\* was told so never becomes it again (data_source_cancel() and
\* data_source_mark_used(), libswc/data.c 376-403, data_device.c 46-69).
SourcesKnow ==
    /\ selection # None => selection \in taken
    /\ cancelled = taken \ {selection}
=============================================================================
