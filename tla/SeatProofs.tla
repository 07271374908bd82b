------------------------------ MODULE SeatProofs ------------------------------
(***************************************************************************)
(* Proofs about the seat.                                                  *)
(*                                                                         *)
(* Its clipboard (Selections), for any clients, sources and devices.       *)
(* Every step but a read is Becomes(t) for a record t that helpers build   *)
(* from Now, so that the lemmas say what the helpers make of a record with *)
(* good fields, and the steps put them together.                           *)
(*                                                                         *)
(* Its input devices and the launcher that opens them (Session), for any   *)
(* devices, any length of the launcher's table and any order of the        *)
(* notices: an input file works only while the launcher holds the          *)
(* terminal.                                                               *)
(***************************************************************************)
EXTENDS Session, Selections, FunctionTheorems, FiniteSetTheorems, SequenceTheorems, TLAPS

-----------------------------------------------------------------------------
(* The clipboard: what the helpers build *)

Records == [sources : SUBSET Sources, used : SUBSET Sources,
            taken : SUBSET Sources, cancelled : SUBSET Sources,
            selection : Sources \cup {None},
            heard : [DeviceObjects -> Sources \cup {None, "untold"}],
            offers : SUBSET (DeviceObjects \X (Sources \cup {None}))]

-----------------------------------------------------------------------------
(* The clipboard: the parts of the inductive invariant *)

\* What is known of a source goes with it; the selection and what the offers say
\* exist; a source that became the selection was told if it is it no longer; and a
\* data control source that was not used was never the selection, which is why
\* Choose() need not take back that it was cancelled.  A source that is being
\* destroyed is not told that it is the selection no longer.
SoundBut(t, dying) ==
    /\ t.used \subseteq t.sources /\ t.taken \subseteq t.sources
    /\ t.selection \in t.sources \cup {None}
    /\ \A offer \in t.offers : offer[2] \in t.sources \cup {None}
    /\ t.selection # None => t.selection \in t.taken
    /\ t.cancelled \subseteq t.taken \ {t.selection}
    /\ t.taken \ {t.selection, dying} \subseteq t.cancelled
    /\ t.taken \cap ControlSources \subseteq t.used

Sound(t) == SoundBut(t, None)

\* Who follows the selection was told it; a device that is not there was told nothing.
Followed(t, resources, client) ==
    /\ \A d \in resources \cap ControlDevices : t.heard[d] = t.selection
    /\ \A d \in resources \cap DataDevices :
         d[1] = client => t.heard[d] \in {t.selection, "untold"}
    /\ \A d \in DeviceObjects \ resources : t.heard[d] = "untold"

SelectionInv ==
    /\ SelectionTypeOK
    /\ Sound(Now)
    /\ Followed(Now, bound, focus)
    /\ asked \in sources \cup {None}

LEMMA InvariantSuffices == ASSUME SelectionInv PROVE OffersAreAlive /\ ReadersKnow /\ SourcesKnow
  BY SourceAssumption
  DEF SelectionInv, SelectionTypeOK, Sound, SoundBut, Followed, Now, OffersAreAlive, ReadersKnow, SourcesKnow, FocusedDevices

-----------------------------------------------------------------------------
(* The clipboard: what the helpers make of a record *)

LEMMA NowIsRecord == ASSUME SelectionTypeOK PROVE Now \in Records
  BY DEF SelectionTypeOK, Now, Records

\* A sound record becomes a good state.
LEMMA BecomesGood ==
  ASSUME NEW t \in Records, Becomes(t), bound' \subseteq DeviceObjects, focus' \in Clients \cup {None},
         Sound(t), Followed(t, bound', focus')
  PROVE  SelectionInv'
  <1>1. SelectionTypeOK'
    BY DEF Becomes, SelectionTypeOK, Records, Sound, SoundBut
  <1>2. /\ Now'.sources = t.sources /\ Now'.used = t.used /\ Now'.taken = t.taken
        /\ Now'.cancelled = t.cancelled /\ Now'.selection = t.selection
        /\ Now'.heard = t.heard /\ Now'.offers = t.offers
    BY DEF Becomes, Now
  <1>3. Sound(Now)' /\ Followed(Now, bound, focus)'
    BY <1>2 DEF Sound, SoundBut, Followed
  <1> QED
    BY <1>1, <1>3 DEF SelectionInv, Becomes

\* OfferSelection() to some devices
LEMMA OfferSelectionFields ==
  ASSUME NEW t \in Records, NEW resources \in SUBSET DeviceObjects
  PROVE  LET n == OfferSelection(t, resources)
         IN /\ n \in Records
            /\ n.sources = t.sources /\ n.used = t.used /\ n.taken = t.taken
            /\ n.cancelled = t.cancelled /\ n.selection = t.selection
            /\ n.heard = [d \in DeviceObjects |-> IF d \in resources THEN t.selection ELSE t.heard[d]]
            /\ n.offers \subseteq
                 t.offers \cup (IF t.selection = None THEN {} ELSE resources \X {t.selection})
  BY DEF OfferSelection, NewOffers, Records

LEMMA OfferSelectionSound ==
  ASSUME NEW t \in Records, NEW resources \in SUBSET DeviceObjects, NEW dying, SoundBut(t, dying)
  PROVE  SoundBut(OfferSelection(t, resources), dying)
  <1> DEFINE n == OfferSelection(t, resources)
  <1>1. /\ n.sources = t.sources /\ n.used = t.used /\ n.taken = t.taken
        /\ n.cancelled = t.cancelled /\ n.selection = t.selection
        /\ n.offers \subseteq
             t.offers \cup (IF t.selection = None THEN {} ELSE resources \X {t.selection})
    BY OfferSelectionFields
  <1> HIDE DEF n
  <1>2. ASSUME NEW offer \in n.offers PROVE offer[2] \in n.sources \cup {None}
    <2>1. CASE offer \in t.offers
      BY <1>1, <2>1 DEF SoundBut
    <2>2. CASE offer \notin t.offers
      <3>1. t.selection # None /\ offer \in resources \X {t.selection}
        BY <1>1, <1>2, <2>2
      <3> QED  BY <1>1, <3>1 DEF SoundBut
    <2> QED  BY <2>1, <2>2
  <1>3. SoundBut(n, dying)
    BY <1>1, <1>2 DEF SoundBut
  <1> QED  BY <1>3 DEF n

\* Everybody who follows the selection hears of it.
LEMMA SelectionChangedGood ==
  ASSUME NEW t \in Records, bound \subseteq DeviceObjects, NEW dying, SoundBut(t, dying),
         \A d \in DeviceObjects \ bound : t.heard[d] = "untold"
  PROVE  /\ SelectionChanged(t) \in Records
         /\ SelectionChanged(t).selection = t.selection
         /\ SoundBut(SelectionChanged(t), dying)
         /\ Followed(SelectionChanged(t), bound, focus)
  <1>1. EventListeners \in SUBSET DeviceObjects /\ EventListeners \subseteq bound
    BY DEF EventListeners, FocusedDevices
  <1>2. /\ SelectionChanged(t).selection = t.selection
        /\ SelectionChanged(t).heard =
             [d \in DeviceObjects |-> IF d \in EventListeners THEN t.selection ELSE t.heard[d]]
        /\ SelectionChanged(t) \in Records
    BY <1>1, OfferSelectionFields DEF SelectionChanged
  <1>3. Followed(SelectionChanged(t), bound, focus)
    BY <1>1, <1>2 DEF Followed, EventListeners, FocusedDevices
  <1>4. SoundBut(SelectionChanged(t), dying)
    BY <1>1, OfferSelectionSound DEF SelectionChanged
  <1> QED
    BY <1>2, <1>3, <1>4

\* SetSelection() to a source that exists, and that is used if it is a data control
\* source.
LEMMA SetSelectionGood ==
  ASSUME NEW t \in Records, NEW s \in t.sources \cup {None}, bound \subseteq DeviceObjects,
         Sound(t), s \in ControlSources => s \in t.used /\ s \notin t.taken,
         Followed(t, bound, focus)
  PROVE  /\ SetSelection(t, s) \in Records
         /\ Sound(SetSelection(t, s))
         /\ Followed(SetSelection(t, s), bound, focus)
  <1>1. CASE s = t.selection
    BY <1>1 DEF SetSelection
  <1>2. CASE s # t.selection
    <2> DEFINE n == Choose(Cancel(t, t.selection), s)
    <2>1. /\ n \in Records
          /\ n.sources = t.sources /\ n.used = t.used /\ n.heard = t.heard /\ n.offers = t.offers
          /\ n.selection = s /\ n.taken = t.taken \cup ({s} \ {None})
          /\ n.cancelled = (t.cancelled \cup ({t.selection} \ {None})) \ ({s} \cap DataSources)
      BY ZenonT(30) DEF Choose, Cancel, Records
    <2>2. SetSelection(t, s) = SelectionChanged(n)
      BY <1>2 DEF SetSelection
    <2> HIDE DEF n
    <2>3. Sound(n)
      BY <1>2, <2>1, SourceAssumption DEF Sound, SoundBut, Records, Sources
    <2> QED
      BY <2>1, <2>2, <2>3, SelectionChangedGood DEF Followed, Sound
  <1> QED  BY <1>1, <1>2

\* data_destroy(), of a source that is not the selection any longer
LEMMA ExpireGood ==
  ASSUME NEW t \in Records, NEW s \in Sources, bound \subseteq DeviceObjects,
         SoundBut(t, s), t.selection # s, Followed(t, bound, focus)
  PROVE  /\ Expire(t, s) \in Records
         /\ Sound(Expire(t, s))
         /\ Followed(Expire(t, s), bound, focus)
  <1> DEFINE n == Expire(t, s)
  <1> DEFINE left == {<<o[1], IF o[2] = s THEN None ELSE o[2]>> : o \in t.offers}
  <1>1. /\ n.sources = t.sources \ {s} /\ n.used = t.used \ {s} /\ n.taken = t.taken \ {s}
        /\ n.cancelled = t.cancelled \ {s} /\ n.selection = t.selection /\ n.heard = t.heard
        /\ n.offers = left
    BY DEF Expire, Freed, Records
  <1>2. left \subseteq DeviceObjects \X (Sources \cup {None})
    BY DEF Records
  <1>3. n \in Records
    <2>1. Freed(t, s) \in Records /\ Freed(t, s).offers = t.offers
      BY DEF Freed, Records
    <2>2. n = [Freed(t, s) EXCEPT !.offers = left]
      BY <2>1 DEF Expire
    <2> HIDE DEF n, left
    <2> QED  BY <1>2, <2>1, <2>2 DEF Records
  <1>4. ASSUME NEW o \in left PROVE o[2] \in (t.sources \ {s}) \cup {None}
    BY <1>4 DEF SoundBut
  <1> HIDE DEF n, left
  <1>5. Sound(n)
    BY <1>1, <1>4 DEF Sound, SoundBut, Records
  <1>6. Followed(n, bound, focus)
    BY <1>1 DEF Followed
  <1> QED  BY <1>3, <1>5, <1>6 DEF n

-----------------------------------------------------------------------------
(* The clipboard: the steps *)

\* A step whose record only follows from what is known of its fields.
LEMMA SelectionInvFacts ==
  ASSUME SelectionInv
  PROVE  /\ Now \in Records /\ Sound(Now) /\ Followed(Now, bound, focus)
         /\ bound \subseteq DeviceObjects /\ focus \in Clients \cup {None}
         /\ Now.sources = sources /\ Now.used = used /\ Now.taken = taken
         /\ Now.cancelled = cancelled /\ Now.selection = selection
         /\ Now.heard = heard /\ Now.offers = offers
  BY NowIsRecord DEF SelectionInv, SelectionTypeOK, Now

\* A new source, of either kind, is known of nowhere.
LEMMA NewGood ==
  ASSUME SelectionInv, NEW s \in Sources
  PROVE  New(Now, s) \in Records /\ Sound(New(Now, s)) /\ Followed(New(Now, s), bound, focus)
  BY SelectionInvFacts DEF New, Sound, SoundBut, Followed, Records

LEMMA SelectionInvInit == SelectionInit => SelectionInv
  <1> SUFFICES ASSUME SelectionInit PROVE SelectionInv
    OBVIOUS
  <1>1. SelectionTypeOK
    BY DEF SelectionInit, SelectionTypeOK
  <1> QED
    BY <1>1 DEF SelectionInit, SelectionInv, Sound, SoundBut, Followed, Now

LEMMA DestroySourceInv == ASSUME SelectionInv, NEW s \in Sources, DestroySource(s) PROVE SelectionInv'
  <1> DEFINE left == IF s = selection THEN LoseSelection(Now) ELSE Now
  <1>0. taken \subseteq Sources /\ None \notin taken
    BY SelectionInvFacts, SourceAssumption DEF Records
  <1>1. left \in Records /\ left.selection # s /\ SoundBut(left, s) /\ Followed(left, bound, focus)
    <2>1. CASE s = selection
      <3> DEFINE t == [Now EXCEPT !.selection = None]
      <3>1. /\ t \in Records /\ t.selection = None /\ t.heard = heard /\ t.sources = sources
            /\ t.used = used /\ t.taken = taken /\ t.cancelled = cancelled /\ t.offers = offers
        BY SelectionInvFacts DEF Now, Records
      <3>2. left = SelectionChanged(t)
        BY <2>1 DEF LoseSelection
      <3> HIDE DEF t
      <3>3. SoundBut(t, s)
        BY <1>0, <2>1, <3>1, SelectionInvFacts DEF Sound, SoundBut
      <3>4. \A d \in DeviceObjects \ bound : t.heard[d] = "untold"
        BY <3>1, SelectionInvFacts DEF Followed
      <3> QED
        BY <3>1, <3>2, <3>3, <3>4, SelectionInvFacts, SelectionChangedGood, SourceAssumption
    <2>2. CASE s # selection
      BY <1>0, <2>2, SelectionInvFacts DEF Sound, SoundBut
    <2> QED  BY <2>1, <2>2
  <1> HIDE DEF left
  <1>2. /\ Expire(left, s) \in Records /\ Sound(Expire(left, s))
        /\ Followed(Expire(left, s), bound, focus)
    BY <1>1, SelectionInvFacts, ExpireGood
  <1>3. Becomes(Expire(left, s)) /\ bound' = bound /\ focus' = focus
    BY DEF DestroySource, left
  <1> QED
    BY <1>2, <1>3, SelectionInvFacts, BecomesGood

LEMMA SetDataSelectionInv ==
  ASSUME SelectionInv, NEW c, NEW s \in DataSources \cup {None}, SetDataSelection(c, s)
  PROVE  SelectionInv'
  <1>1. s \in Now.sources \cup {None} /\ s \notin ControlSources
    BY SelectionInvFacts, SourceAssumption DEF SetDataSelection, Sources
  <1>2. /\ SetSelection(Now, s) \in Records /\ Sound(SetSelection(Now, s))
        /\ Followed(SetSelection(Now, s), bound, focus)
    BY <1>1, SelectionInvFacts, SetSelectionGood
  <1>3. Becomes(SetSelection(Now, s)) /\ bound' = bound /\ focus' = focus
    BY DEF SetDataSelection
  <1> QED
    BY <1>2, <1>3, SelectionInvFacts, BecomesGood

\* A data control source that was not used was not the selection before.
LEMMA SetControlSelectionInv ==
  ASSUME SelectionInv, NEW c, NEW s \in ControlSources \cup {None}, SetControlSelection(c, s)
  PROVE  SelectionInv'
  <1> DEFINE t == MarkUsed(Now, s)
  <1>1. /\ t \in Records /\ t.sources = sources /\ t.used = used \cup ({s} \ {None})
        /\ t.taken = taken /\ t.cancelled = cancelled /\ t.selection = selection
        /\ t.heard = heard /\ t.offers = offers
    BY SelectionInvFacts DEF MarkUsed, Records, Sources
  <1> HIDE DEF t
  <1>2. Sound(t) /\ Followed(t, bound, focus)
    BY <1>1, SelectionInvFacts DEF SetControlSelection, Sound, SoundBut, Followed
  <1>3. /\ s \in t.sources \cup {None}
        /\ s \in ControlSources => s \in t.used /\ s \notin t.taken
    BY <1>1, SelectionInvFacts, SourceAssumption DEF SetControlSelection, Sound, SoundBut, Sources
  <1>4. /\ SetSelection(t, s) \in Records /\ Sound(SetSelection(t, s))
        /\ Followed(SetSelection(t, s), bound, focus)
    BY <1>1, <1>2, <1>3, SelectionInvFacts, SetSelectionGood
  <1>5. Becomes(SetSelection(t, s)) /\ bound' = bound /\ focus' = focus
    BY DEF SetControlSelection, t
  <1> QED
    BY <1>4, <1>5, SelectionInvFacts, BecomesGood

\* One kind of device hears of the selection at once, the other with the focus.
LEMMA GetDataDeviceInv == ASSUME SelectionInv, NEW d \in DataDevices, GetDataDevice(d) PROVE SelectionInv'
  <1>1. Followed(Now, bound', focus')
    BY SelectionInvFacts DEF GetDataDevice, Followed, DeviceObjects, DataDevices, ControlDevices
  <1> QED
    BY <1>1, SelectionInvFacts, BecomesGood DEF GetDataDevice, DeviceObjects

LEMMA GetControlDeviceInv ==
  ASSUME SelectionInv, NEW d \in ControlDevices, GetControlDevice(d) PROVE SelectionInv'
  <1> DEFINE n == OfferSelection(Now, {d})
  <1>1. {d} \in SUBSET DeviceObjects
    BY DEF DeviceObjects
  <1>2. /\ n \in Records /\ n.selection = selection
        /\ n.heard = [e \in DeviceObjects |-> IF e \in {d} THEN selection ELSE heard[e]]
    BY <1>1, SelectionInvFacts, OfferSelectionFields
  <1>3. Sound(n)
    BY <1>1, SelectionInvFacts, OfferSelectionSound DEF Sound
  <1> HIDE DEF n
  <1>4. Followed(n, bound', focus')
    BY <1>2, SelectionInvFacts DEF GetControlDevice, Followed, DeviceObjects, DataDevices, ControlDevices
  <1>5. Becomes(n) /\ bound' \subseteq DeviceObjects /\ focus' = focus
    BY <1>1, SelectionInvFacts DEF GetControlDevice, n
  <1> QED
    BY <1>2, <1>3, <1>4, <1>5, SelectionInvFacts, BecomesGood

LEMMA DestroyDeviceInv == ASSUME SelectionInv, NEW d \in DeviceObjects, DestroyDevice(d) PROVE SelectionInv'
  <1> DEFINE n == [Now EXCEPT !.heard[d] = "untold"]
  <1>1. /\ n \in Records /\ n.sources = sources /\ n.used = used /\ n.taken = taken
        /\ n.cancelled = cancelled /\ n.selection = selection /\ n.offers = offers
        /\ n.heard = [heard EXCEPT ![d] = "untold"]
    BY SelectionInvFacts DEF Records
  <1>2. heard \in [DeviceObjects -> Sources \cup {None, "untold"}]
    BY DEF SelectionInv, SelectionTypeOK
  <1>3. Becomes(n) /\ bound' = bound \ {d} /\ focus' = focus
    BY DEF DestroyDevice
  <1> HIDE DEF n
  <1>4. Sound(n)
    BY <1>1, SelectionInvFacts DEF Sound, SoundBut
  <1>5. Followed(n, bound', focus')
    BY <1>1, <1>2, <1>3, SelectionInvFacts DEF Followed
  <1> QED
    BY <1>1, <1>3, <1>4, <1>5, SelectionInvFacts, BecomesGood

LEMMA SetFocusInv == ASSUME SelectionInv, NEW c \in Clients \cup {None}, SetFocus(c) PROVE SelectionInv'
  <1> DEFINE resources == {d \in bound \cap DataDevices : d[1] = c}
  <1> DEFINE n == OfferSelection(Now, resources)
  <1>1. resources \in SUBSET DeviceObjects
    BY DEF DeviceObjects
  <1>2. Becomes(n) /\ bound' = bound /\ focus' = c
    BY DEF SetFocus
  <1>3. /\ n \in Records /\ n.selection = selection
        /\ n.heard = [e \in DeviceObjects |-> IF e \in resources THEN selection ELSE heard[e]]
    BY <1>1, SelectionInvFacts, OfferSelectionFields
  <1>4. Sound(n)
    BY <1>1, SelectionInvFacts, OfferSelectionSound DEF Sound
  <1> HIDE DEF n
  <1>5. DataDevices \cap ControlDevices = {}
    BY DEF DataDevices, ControlDevices
  <1>6. Followed(n, bound', focus')
    BY <1>2, <1>3, <1>5, SelectionInvFacts DEF Followed
  <1> QED
    BY <1>2, <1>3, <1>4, <1>6, SelectionInvFacts, BecomesGood

LEMMA DestroyOfferInv == ASSUME SelectionInv, NEW offer, DestroyOffer(offer) PROVE SelectionInv'
  <1> DEFINE n == [Now EXCEPT !.offers = @ \ {offer}]
  <1>1. /\ n \in Records /\ n.sources = sources /\ n.used = used /\ n.taken = taken
        /\ n.cancelled = cancelled /\ n.selection = selection /\ n.heard = heard
        /\ n.offers = offers \ {offer}
    BY SelectionInvFacts DEF Records
  <1>2. Becomes(n) /\ bound' = bound /\ focus' = focus
    BY DEF DestroyOffer
  <1> HIDE DEF n
  <1>3. Sound(n) /\ Followed(n, bound, focus)
    BY <1>1, SelectionInvFacts DEF Sound, SoundBut, Followed
  <1> QED
    BY <1>1, <1>2, <1>3, SelectionInvFacts, BecomesGood

\* Whoever reads asks what its offer says.
LEMMA ReceiveInv == ASSUME SelectionInv, NEW offer \in offers, SourceSend(offer[2]) PROVE SelectionInv'
  <1>1. Now' = Now
    BY DEF SourceSend, ofSources, Now
  <1>2. asked' \in sources \cup {None}
    BY SelectionInvFacts DEF SourceSend, Sound, SoundBut
  <1> QED
    BY <1>1, <1>2 DEF SelectionInv, SelectionTypeOK, SourceSend, ofSources, Sound, SoundBut, Followed, Now

-----------------------------------------------------------------------------
LEMMA SelectionInvNext == ASSUME SelectionInv, [SelectionNext]_selectionVars PROVE SelectionInv'
  <1>1. ASSUME NEW s \in Sources, Becomes(New(Now, s)), UNCHANGED <<bound, focus>> PROVE SelectionInv'
    BY <1>1, SelectionInvFacts, NewGood, BecomesGood
  <1>2. CASE \E s \in DataSources : CreateDataSource(s)
    BY <1>1, <1>2 DEF CreateDataSource, Sources
  <1>3. CASE \E s \in ControlSources : CreateControlSource(s)
    BY <1>1, <1>3 DEF CreateControlSource, Sources
  <1>4. CASE \E s \in Sources : DestroySource(s)
    BY <1>4, DestroySourceInv
  <1>5. CASE \E c \in Readers, s \in DataSources \cup {None} : SetDataSelection(c, s)
    BY <1>5, SetDataSelectionInv
  <1>6. CASE \E c \in Managers, s \in ControlSources \cup {None} : SetControlSelection(c, s)
    BY <1>6, SetControlSelectionInv
  <1>7. CASE \E d \in DataDevices : GetDataDevice(d)
    BY <1>7, GetDataDeviceInv
  <1>8. CASE \E d \in ControlDevices : GetControlDevice(d)
    BY <1>8, GetControlDeviceInv
  <1>9. CASE \E d \in DeviceObjects : DestroyDevice(d)
    BY <1>9, DestroyDeviceInv
  <1>10. CASE \E offer \in offers : Receive(offer) \/ ReceiveControl(offer) \/ DestroyOffer(offer)
    BY <1>10, ReceiveInv, DestroyOfferInv DEF Receive, ReceiveControl
  <1>11. CASE \E c \in Clients \cup {None} : SetFocus(c)
    BY <1>11, SetFocusInv
  <1>12. CASE UNCHANGED selectionVars
    BY <1>12 DEF selectionVars, ofSources, SelectionInv, SelectionTypeOK, Sound, SoundBut, Followed, Now
  <1> QED
    BY <1>2, <1>3, <1>4, <1>5, <1>6, <1>7, <1>8, <1>9, <1>10, <1>11, <1>12 DEF SelectionNext

\* The inductive invariant holds, for any clients and sources.
THEOREM SelectionInvariant == SelectionSpec => []SelectionInv
  <1>1. SelectionInv /\ [SelectionNext]_selectionVars => SelectionInv'
    BY SelectionInvNext
  <1> QED
    BY SelectionInvInit, <1>1, PTL DEF SelectionSpec

\* A read from an offer, at any time, asks a source that exists, or nobody: the
\* pointers that data_destroy() clears are all there are (libswc/data.c 211-236).
THEOREM NoOfferDangles == SelectionSpec => []OffersAreAlive
  <1>1. SelectionInv => OffersAreAlive
    BY InvariantSuffices
  <1> QED
    BY SelectionInvariant, <1>1, PTL

\* Clipboard managers, and the client with the focus, have been told the selection
\* as it is (libswc/data_control.c 70-104, seat.c 79-114).
THEOREM FollowersKnow == SelectionSpec => []ReadersKnow
  <1>1. SelectionInv => ReadersKnow
    BY InvariantSuffices
  <1> QED
    BY SelectionInvariant, <1>1, PTL

\* The sources that were told that they are the selection no longer are those that
\* were it, but for the one that is (libswc/data_device.c 46-69).
THEOREM OwnersKnow == SelectionSpec => []SourcesKnow
  <1>1. SelectionInv => SourcesKnow
    BY InvariantSuffices
  <1> QED
    BY SelectionInvariant, <1>1, PTL

-----------------------------------------------------------------------------
(* The session: the parts of the inductive invariant *)

\* What is left of swc_initialize().
Stages ==
    {<<"drm", "planes", "compositor", "seat", "check">>, <<"planes", "compositor", "seat", "check">>,
     <<"compositor", "seat", "check">>, <<"seat", "check">>, <<"check">>}

\* A frame that has something left to do has it in left.
Frames ==
    {f \in FrameType : /\ f.do = "start" => f.left \in Stages
                       /\ f.do = "tell" => f.left # <<>>}

\* An answer of the launcher that carries no input file that works
Harmless(m) == IsNotice(m) \/ m.target \notin Devices \/ m.file # "works"

NothingWorks ==
    /\ \A d \in DOMAIN devices : devices[d] # "works"
    /\ \A i \in DOMAIN messages : Harmless(messages[i])

\* The launcher hears that the compositor is gone only when it is, and then nothing
\* of it is left: cleanup() need not revoke a file.
GoneIsEmpty ==
    /\ life = "gone" => stack = <<>> /\ devices = NoDevices
    /\ \A i \in DOMAIN signals : signals[i] = "child" => life = "gone"

\* What poll() found is still there when it is served.
RoundIsServed ==
    /\ "signals" \in round => signals # <<>>
    /\ "socket" \in round => requests # <<>>

IInv ==
    /\ TypeOK
    /\ RoundIsServed
    /\ stack \in Seq(Frames)
    /\ ~granted => NothingWorks
    /\ GoneIsEmpty

LEMMA IInvSuffices == IInv => GrantedWhileActive
  BY DEF IInv, GrantedWhileActive, NothingWorks, Harmless

-----------------------------------------------------------------------------
(* Messages, frames and serials *)

LEMMA MessageKinds ==
  ASSUME NEW m \in Answer \cup Notice
  PROVE  (IsNotice(m) /\ m \in Notice) \/ (~IsNotice(m) /\ m \in Answer)
  BY DEF Answer, Notice, IsNotice

LEMMA SingletonSeq == ASSUME NEW S, NEW e \in S PROVE <<e>> \in Seq(S)
  OBVIOUS

LEMMA TopIsFrame ==
  ASSUME stack \in Seq(Frames), stack # <<>>
  PROVE  /\ Top \in Frames /\ Top \in FrameType
         /\ Below \in Seq(Frames)
  <1>1. Len(stack) \in 1..Len(stack)
    BY EmptySeq, LenProperties
  <1>2. Top \in Frames
    BY <1>1, ElementOfSeq DEF Top
  <1>3. \A i \in 1..Len(stack)-1 : stack[i] \in Frames
    BY <1>1, ElementOfSeq
  <1>4. Below \in Seq(Frames)
    BY <1>1, <1>3, SubSeqProperties DEF Below
  <1> QED
    BY <1>2, <1>4 DEF Frames

LEMMA PushFrame ==
  ASSUME NEW s \in Seq(Frames), NEW f \in Frames
  PROVE  Append(s, f) \in Seq(Frames)
  OBVIOUS

LEMMA FramesAreTyped ==
  ASSUME NEW s \in Seq(Frames)
  PROVE  s \in Seq(FrameType)
  BY SeqMonotonic, Frames \subseteq FrameType DEF Frames

LEMMA FrameIsTyped ==
  ASSUME NEW do \in {"start", "tell", "open", "wait"}
  PROVE  /\ Frame(do) \in FrameType
         /\ Frame(do).do = do
  BY DEF Frame, FrameType, Targets

LEMMA ImageIsFinite ==
  ASSUME NEW S, IsFiniteSet(S), NEW f
  PROVE  IsFiniteSet({f[x] : x \in S})
  <1> DEFINE T == {f[x] : x \in S}
             g == [x \in S |-> f[x]]
  <1>1. g \in Surjection(S, T)
    BY DEF Surjection
  <1> QED
    BY <1>1, FS_Surjection

LEMMA SerialIsNew ==
  ASSUME TypeOK
  PROVE  NewSerial \in Nat
  <1> DEFINE ofRequests == [i \in DOMAIN requests |-> requests[i].serial]
             ofMessages == [i \in DOMAIN messages |-> messages[i].serial]
             ofFrames == [i \in DOMAIN stack |-> stack[i].serial]
             answers == {j \in DOMAIN messages : ~IsNotice(messages[j])}
             R == {ofRequests[i] : i \in DOMAIN requests}
             M == {ofMessages[i] : i \in answers}
             F == {ofFrames[i] : i \in DOMAIN stack}
             known == R \cup M \cup F
             all == 1..(Cardinality(known) + 1)
  <1>1. /\ DOMAIN requests = 1..Len(requests) /\ Len(requests) \in Nat
        /\ DOMAIN messages = 1..Len(messages) /\ Len(messages) \in Nat
        /\ DOMAIN stack = 1..Len(stack) /\ Len(stack) \in Nat
    BY LenProperties DEF TypeOK
  <1>2. /\ IsFiniteSet(DOMAIN requests) /\ IsFiniteSet(DOMAIN messages)
        /\ IsFiniteSet(DOMAIN stack)
    BY <1>1, FS_Interval
  <1>3. IsFiniteSet(answers)
    BY <1>2, FS_Subset
  <1> HIDE DEF ofRequests, ofMessages, ofFrames, answers
  <1>4. IsFiniteSet(R) /\ IsFiniteSet(M) /\ IsFiniteSet(F)
    BY <1>2, <1>3, ImageIsFinite
  <1> HIDE DEF R, M, F
  <1>5. IsFiniteSet(known) /\ Cardinality(known) \in Nat
    BY <1>4, FS_Union, FS_CardinalityType
  <1> HIDE DEF known
  <1>6. IsFiniteSet(all) /\ Cardinality(all) = Cardinality(known) + 1
    BY <1>5, FS_Interval
  <1>7. \E n \in all : n \notin known
    <2> SUFFICES ASSUME all \subseteq known PROVE FALSE
      OBVIOUS
    <2> QED
      BY <1>5, <1>6, FS_Subset
  <1>8. NewSerial = CHOOSE n \in all : n \notin known
    BY DEF NewSerial, known, R, M, F, ofRequests, ofMessages, ofFrames, answers
  <1> QED
    BY <1>5, <1>7, <1>8

-----------------------------------------------------------------------------
(* The terminal and the launcher *)

LEMMA AskedToLeave ==
  ASSUME IInv
  PROVE  /\ AskToLeave \in Seq({"release", "acquire", "child"})
         /\ \A i \in DOMAIN AskToLeave : AskToLeave[i] = "child" => life = "gone"
         /\ signals # <<>> => AskToLeave # <<>>
  <1>1. /\ signals \in Seq({"release", "acquire", "child"})
        /\ \A i \in DOMAIN signals : signals[i] = "child" => life = "gone"
    BY DEF IInv, TypeOK, GoneIsEmpty
  <1> QED
    BY <1>1, SMTT(30) DEF AskToLeave

LEMMA SignalsServed ==
  ASSUME IInv, "signals" \in round
  PROVE  /\ signals # <<>> /\ 1 \in DOMAIN signals /\ Head(signals) = signals[1]
         /\ Tail(signals) \in Seq({"release", "acquire", "child"})
         /\ \A i \in DOMAIN Tail(signals) : \E j \in DOMAIN signals : Tail(signals)[i] = signals[j]
  <1>1. signals # <<>> /\ signals \in Seq({"release", "acquire", "child"})
    BY DEF IInv, TypeOK, RoundIsServed
  <1> QED
    BY <1>1, HeadTailProperties

LEMMA NoInputs == 0 \in 0..MaxInputs
  BY SessionAssumption

LEMMA InitIInv == Init => IInv
  <1> SUFFICES ASSUME Init PROVE IInv
    OBVIOUS
  <1>1. Starting \in Frames
    <2>1. Starting.left \in Seq(Listeners \cup {"drm", "check"})
      BY DEF Starting, Frame, Listeners
    <2> QED
      BY <2>1, FrameIsTyped DEF Starting, Frame, Frames, FrameType, Stages, Targets
  <1>2. stack \in Seq(Frames) /\ stack \in Seq(FrameType)
    BY <1>1, FramesAreTyped, SingletonSeq DEF Init
  <1>3. messages \in Seq(Answer \cup Notice)
    <2>1. [notice |-> "activate"] \in Answer \cup Notice
      BY DEF Notice
    <2>2. <<[notice |-> "activate"]>> \in Seq(Answer \cup Notice)
      BY <2>1, SingletonSeq
    <2> QED
      BY <2>2, EmptySeq DEF Init
  <1>4. TypeOK
    <2>1. /\ signals \in Seq({"release", "acquire", "child"})
          /\ requests \in Seq(Request) /\ joined \in Seq(Listeners)
      BY EmptySeq, SingletonSeq DEF Init
    <2>2. told \in [Listeners -> BOOLEAN] /\ DOMAIN devices = {}
      BY DEF Init
    <2>3. inputs \in 0..MaxInputs
      BY NoInputs DEF Init
    <2> QED
      BY <1>2, <1>3, <2>1, <2>2, <2>3 DEF Init, TypeOK
  <1>5. ~granted => NothingWorks
    BY DEF Init, NothingWorks
  <1>6. GoneIsEmpty /\ RoundIsServed
    BY DEF Init, GoneIsEmpty, RoundIsServed
  <1> QED
    BY <1>2, <1>4, <1>5, <1>6 DEF IInv

LEMMA LeaveIInv == ASSUME IInv, Leave PROVE IInv'
  <1>1. TypeOK'
    BY AskedToLeave DEF IInv, TypeOK, Leave, library
  <1>2. (stack \in Seq(Frames))'
    BY DEF IInv, Leave
  <1>3. (~granted => NothingWorks)'
    BY AskedToLeave DEF IInv, TypeOK, NothingWorks, Harmless, GoneIsEmpty, Leave, library
  <1>4. GoneIsEmpty' /\ RoundIsServed'
    BY AskedToLeave DEF IInv, GoneIsEmpty, RoundIsServed, Leave, library
  <1> QED
    BY <1>1, <1>2, <1>3, <1>4 DEF IInv

LEMMA ComeIInv == ASSUME IInv, Come PROVE IInv'
  <1>1. TypeOK'
    BY DEF IInv, TypeOK, Come, library
  <1>2. (stack \in Seq(Frames))'
    BY DEF IInv, Come
  <1>3. (~granted => NothingWorks)'
    BY DEF IInv, TypeOK, NothingWorks, Harmless, GoneIsEmpty, Come, library
  <1>4. GoneIsEmpty' /\ RoundIsServed'
    <2>1. /\ signals \in Seq({"release", "acquire", "child"})
          /\ \A i \in DOMAIN signals : signals[i] = "child" => life = "gone"
      BY DEF IInv, TypeOK, GoneIsEmpty
    <2>2. /\ signals' # <<>>
          /\ \A i \in DOMAIN signals' : signals'[i] = "child" => life = "gone"
      BY <2>1 DEF Come
    <2> QED
      BY <2>2 DEF IInv, GoneIsEmpty, RoundIsServed, Come, library
  <1> QED
    BY <1>1, <1>2, <1>3, <1>4 DEF IInv

LEMMA PollIInv == ASSUME IInv, Poll PROVE IInv'
  <1>1. TypeOK'
    BY DEF IInv, TypeOK, Poll, library
  <1>2. (stack \in Seq(Frames))'
    BY DEF IInv, Poll
  <1>3. (~granted => NothingWorks)'
    BY DEF IInv, TypeOK, NothingWorks, Harmless, GoneIsEmpty, Poll, library
  <1>4. GoneIsEmpty' /\ RoundIsServed'
    BY DEF IInv, TypeOK, GoneIsEmpty, RoundIsServed, Poll, library
  <1> QED
    BY <1>1, <1>2, <1>3, <1>4 DEF IInv

LEMMA HandleSocketDataIInv == ASSUME IInv, HandleSocketData PROVE IInv'
  <1> DEFINE r == Head(requests)
             full == granted /\ inputs = MaxInputs
             ok == r.target = "drm" \/ (r.target \in Devices /\ granted /\ ~full)
             answer == [serial |-> r.serial, target |-> r.target,
                        file |-> IF ok THEN "works" ELSE "none",
                        full |-> full /\ r.target \in Devices]
  <1>1. r \in Request /\ Tail(requests) \in Seq(Request)
    BY HeadTailProperties DEF HandleSocketData, IInv, TypeOK, RoundIsServed
  <1>2. answer \in Answer /\ ~IsNotice(answer)
    BY <1>1 DEF Request, Answer, IsNotice
  <1>3. messages' = Append(messages, answer)
    BY DEF HandleSocketData, AnswerRequest
  <1>4. messages' \in Seq(Answer \cup Notice)
    BY <1>2, <1>3 DEF IInv, TypeOK
  <1>5. inputs' \in 0..MaxInputs
    BY SessionAssumption, <1>1 DEF HandleSocketData, AnswerRequest, IInv, TypeOK
  <1>6. /\ signals' \in Seq({"release", "acquire", "child"})
        /\ \A i \in DOMAIN signals' : signals'[i] = "child" => life = "gone"
    BY AskedToLeave DEF HandleSocketData, AnswerRequest, IInv, TypeOK, GoneIsEmpty
  <1>7. TypeOK'
    BY <1>1, <1>4, <1>5, <1>6 DEF HandleSocketData, IInv, TypeOK, library
  <1>8. (~granted => NothingWorks)'
    <2> SUFFICES ASSUME ~granted PROVE NothingWorks'
      BY DEF HandleSocketData
    <2>1. Harmless(answer)
      BY SessionAssumption DEF Harmless
    <2> QED
      BY <1>2, <1>3, <2>1
      DEF HandleSocketData, IInv, TypeOK, NothingWorks, Harmless, library
  <1>9. GoneIsEmpty'
    BY <1>6 DEF HandleSocketData, IInv, GoneIsEmpty, library
  <1>10. RoundIsServed'
    BY AskedToLeave DEF HandleSocketData, AnswerRequest, IInv, RoundIsServed
  <1> QED
    BY <1>7, <1>8, <1>9, <1>10 DEF HandleSocketData, IInv

\* stop_devices() makes every file harmless, whatever it was.
LEMMA StoppedDevices ==
  ASSUME IInv, StopDevices
  PROVE  /\ messages' \in Seq(Answer \cup Notice)
         /\ DOMAIN devices' = DOMAIN devices
         /\ \A d \in DOMAIN devices' : devices'[d] \in {"works", "revoked"}
         /\ NothingWorks'
  <1> DEFINE stopped(m) == IF ~IsNotice(m) /\ m.target \in Devices
                           THEN [m EXCEPT !.file = Revoked(@)] ELSE m
             left == [i \in DOMAIN messages |-> stopped(messages[i])]
             notice == [notice |-> "deactivate"]
  <1>1. \A m \in Answer \cup Notice : stopped(m) \in Answer \cup Notice /\ Harmless(stopped(m))
    <2> TAKE m \in Answer \cup Notice
    <2>1. CASE IsNotice(m)
      BY <2>1 DEF Harmless
    <2>2. CASE ~IsNotice(m)
      <3>1. m \in Answer
        BY <2>2, MessageKinds
      <3>2. [m EXCEPT !.file = Revoked(@)] \in Answer
        BY <3>1 DEF Answer, Revoked
      <3>3. [m EXCEPT !.file = Revoked(@)].file # "works"
        BY <3>1 DEF Answer, Revoked
      <3> QED
        BY <2>2, <3>1, <3>2, <3>3 DEF Harmless
    <2> QED
      BY <2>1, <2>2
  <1>2. messages \in Seq(Answer \cup Notice)
    BY DEF IInv, TypeOK
  <1> HIDE DEF stopped
  <1>3. left \in Seq(Answer \cup Notice) /\ \A i \in DOMAIN left : Harmless(left[i])
    BY <1>1, <1>2
  <1>4. notice \in Answer \cup Notice /\ Harmless(notice)
    BY DEF Notice, Harmless, IsNotice
  <1>5. messages' = Append(left, notice)
    BY DEF StopDevices, stopped
  <1>6. DOMAIN devices' = DOMAIN devices /\ \A d \in DOMAIN devices' : devices'[d] = Revoked(devices[d])
    BY DEF StopDevices
  <1>7. \A d \in DOMAIN devices' : devices'[d] = "revoked"
    BY <1>6 DEF Revoked, IInv, TypeOK
  <1> HIDE DEF left, notice
  <1>8. messages' \in Seq(Answer \cup Notice) /\ \A i \in DOMAIN messages' : Harmless(messages'[i])
    BY <1>3, <1>4, <1>5
  <1> QED
    BY <1>6, <1>7, <1>8 DEF NothingWorks, Harmless

LEMMA HandleReleaseIInv == ASSUME IInv, HandleRelease PROVE IInv'
  <1>1. /\ signals' \in Seq({"release", "acquire", "child"})
        /\ \A i \in DOMAIN signals' : \E j \in DOMAIN signals : signals'[i] = signals[j]
    BY SignalsServed DEF HandleRelease
  <1>2. inputs' \in 0..MaxInputs
    BY NoInputs DEF HandleRelease, StopDevices
  <1>3. TypeOK'
    BY <1>1, <1>2, StoppedDevices DEF HandleRelease, IInv, TypeOK
  <1>4. (~granted => NothingWorks)'
    BY StoppedDevices DEF HandleRelease
  <1>5. devices = NoDevices => devices' = NoDevices
    BY DEF HandleRelease, StopDevices, NoDevices
  <1>6. GoneIsEmpty'
    BY <1>1, <1>5 DEF HandleRelease, IInv, GoneIsEmpty
  <1>7. RoundIsServed'
    BY DEF HandleRelease, IInv, RoundIsServed
  <1> QED
    BY <1>3, <1>4, <1>6, <1>7 DEF HandleRelease, IInv

LEMMA HandleAcquireIInv == ASSUME IInv, HandleAcquire PROVE IInv'
  <1>1. /\ signals' \in Seq({"release", "acquire", "child"})
        /\ \A i \in DOMAIN signals' : \E j \in DOMAIN signals : signals'[i] = signals[j]
    BY SignalsServed DEF HandleAcquire
  <1>2. [notice |-> "activate"] \in Answer \cup Notice
    BY DEF Notice
  <1>3. messages' \in Seq(Answer \cup Notice)
    BY <1>2 DEF HandleAcquire, IInv, TypeOK
  <1>4. TypeOK'
    BY <1>1, <1>3 DEF HandleAcquire, IInv, TypeOK, library
  <1>5. GoneIsEmpty'
    BY <1>1 DEF HandleAcquire, IInv, GoneIsEmpty, library
  <1> QED
    BY <1>4, <1>5 DEF HandleAcquire, IInv, RoundIsServed

\* The files need not be revoked: the compositor that had them is gone.
LEMMA HandleChildIInv == ASSUME IInv, HandleChild PROVE IInv'
  <1>1. life = "gone" /\ devices = NoDevices
    <2>1. 1 \in DOMAIN signals /\ signals[1] = "child"
      BY SignalsServed DEF HandleChild
    <2> QED
      BY <2>1 DEF IInv, GoneIsEmpty
  <1>2. TypeOK'
    <2>1. /\ signals' \in Seq({"release", "acquire", "child"})
          /\ requests' \in Seq(Request) /\ messages' \in Seq(Answer \cup Notice)
      BY EmptySeq DEF HandleChild
    <2>2. inputs' \in 0..MaxInputs
      BY NoInputs DEF HandleChild
    <2> QED
      BY <2>1, <2>2 DEF HandleChild, IInv, TypeOK, library
  <1>3. NothingWorks'
    BY <1>1 DEF HandleChild, NothingWorks, NoDevices, library
  <1>4. GoneIsEmpty' /\ RoundIsServed'
    BY DEF HandleChild, IInv, GoneIsEmpty, RoundIsServed, library
  <1> QED
    BY <1>2, <1>3, <1>4 DEF HandleChild, IInv

-----------------------------------------------------------------------------
(* The end of the compositor *)

LEMMA ManagerExitsIInv == ASSUME IInv, ManagerExits PROVE IInv'
  <1>1. TypeOK'
    BY DEF IInv, TypeOK, ManagerExits, launcher, library
  <1>2. (stack \in Seq(Frames))'
    BY DEF IInv, ManagerExits
  <1>3. (~granted => NothingWorks)'
    BY DEF IInv, TypeOK, NothingWorks, Harmless, GoneIsEmpty, ManagerExits, launcher, library
  <1>4. GoneIsEmpty' /\ RoundIsServed'
    BY DEF IInv, TypeOK, GoneIsEmpty, RoundIsServed, ManagerExits, launcher, library
  <1> QED
    BY <1>1, <1>2, <1>3, <1>4 DEF IInv

LEMMA DieIInv == ASSUME IInv, Die PROVE IInv'
  <1>1. /\ messages' \in Seq(Answer \cup Notice) /\ joined' \in Seq(Listeners)
        /\ stack' \in Seq(FrameType) /\ stack' \in Seq(Frames)
    BY EmptySeq DEF Die
  <1>2. signals' \in Seq({"release", "acquire", "child"}) /\ signals' # <<>>
    BY DEF Die, IInv, TypeOK
  <1>3. TypeOK'
    BY <1>1, <1>2 DEF Die, IInv, TypeOK, NoDevices
  <1>4. NothingWorks'
    BY DEF Die, NothingWorks, NoDevices
  <1>5. GoneIsEmpty' /\ RoundIsServed'
    BY <1>2 DEF Die, IInv, GoneIsEmpty, RoundIsServed
  <1> QED
    BY <1>1, <1>3, <1>4, <1>5 DEF Die, IInv

-----------------------------------------------------------------------------
(* The compositor at work *)

LEMMA FirstMessage ==
  ASSUME IInv, messages # <<>>
  PROVE  /\ Head(messages) \in Answer \cup Notice
         /\ Tail(messages) \in Seq(Answer \cup Notice)
         /\ ~granted => Harmless(Head(messages)) /\ \A i \in DOMAIN Tail(messages) : Harmless(Tail(messages)[i])
  <1>1. messages \in Seq(Answer \cup Notice)
    BY DEF IInv, TypeOK
  <1>2. /\ Head(messages) = messages[1] /\ 1 \in DOMAIN messages
        /\ \A i \in DOMAIN Tail(messages) : Tail(messages)[i] = messages[i+1] /\ i+1 \in DOMAIN messages
    BY <1>1, HeadTailProperties
  <1>3. ~granted => \A i \in DOMAIN messages : Harmless(messages[i])
    BY DEF IInv, NothingWorks
  <1> QED
    BY <1>1, <1>2, <1>3, HeadTailProperties

LEMMA NotGone == ASSUME IInv, stack # <<>> PROVE life # "gone"
  BY DEF IInv, GoneIsEmpty

\* A step of the compositor leaves the launcher alone, and its end to others.
LEMMA LauncherRests ==
  ASSUME IInv, life # "gone", life' = life, UNCHANGED launcher,
         requests' = requests \/ \E r : requests' = Append(requests, r)
  PROVE  GoneIsEmpty' /\ RoundIsServed'
  <1>1. requests # <<>> => requests' # <<>>
    BY DEF IInv, TypeOK
  <1> QED
    BY <1>1 DEF IInv, GoneIsEmpty, RoundIsServed, launcher

LEMMA TellIsFrame ==
  ASSUME TypeOK, NEW on \in BOOLEAN
  PROVE  Tell(on) \in Frames
  <1> DEFINE left == Append(joined, "manager")
  <1>1. left \in Seq(Listeners \cup {"drm", "check"}) /\ left # <<>>
    <2>1. joined \in Seq(Listeners \cup {"drm", "check"})
      BY SeqMonotonic DEF TypeOK
    <2>2. "manager" \in Listeners \cup {"drm", "check"}
      BY DEF Listeners
    <2> QED
      BY <2>1, <2>2
  <1>2. Frame("tell") \in FrameType /\ Frame("tell").do = "tell"
    BY FrameIsTyped
  <1> HIDE DEF left
  <1>3. [Frame("tell") EXCEPT !.on = on, !.left = left] \in Frames
    BY <1>1, <1>2 DEF Frames, FrameType
  <1> QED
    BY <1>3 DEF Tell, left

LEMMA EventHandled ==
  ASSUME TypeOK, NEW m \in Answer \cup Notice, NEW below \in Seq(Frames), HandleEvent(m, below)
  PROVE  active' \in BOOLEAN /\ stack' \in Seq(Frames)
  BY TellIsFrame, PushFrame, ZenonT(30) DEF HandleEvent, TypeOK

LEMMA HandleDataIInv == ASSUME IInv, HandleData PROVE IInv'
  <1>1. active' \in BOOLEAN /\ stack' \in Seq(Frames)
    BY FirstMessage, EventHandled DEF HandleData, IInv
  <1>2. TypeOK'
    BY <1>1, FirstMessage, FramesAreTyped DEF HandleData, IInv, TypeOK, launcher
  <1>3. (~granted => NothingWorks)'
    BY FirstMessage DEF HandleData, IInv, NothingWorks, Harmless, launcher
  <1>4. GoneIsEmpty' /\ RoundIsServed'
    BY LauncherRests DEF HandleData
  <1> QED
    BY <1>1, <1>2, <1>3, <1>4 DEF IInv

LEMMA TopDoes ==
  ASSUME IInv, NEW do, Doing(do)
  PROVE  /\ stack # <<>> /\ Top \in Frames /\ Top \in FrameType /\ Top.do = do
         /\ Below \in Seq(Frames) /\ life # "gone"
  BY TopIsFrame, NotGone DEF Doing, IInv

LEMMA TellNextIInv == ASSUME IInv, TellNext PROVE IInv'
  <1> DEFINE rest == [Top EXCEPT !.left = Tail(@)]
             below == IF Len(Top.left) = 1 THEN Below ELSE Append(Below, rest)
  <1>1. /\ Top \in Frames /\ Top \in FrameType /\ Top.do = "tell" /\ Below \in Seq(Frames)
        /\ life # "gone" /\ Top.left # <<>>
    BY TopDoes DEF TellNext, Frames
  <1>2. Top.left \in Seq(Listeners \cup {"drm", "check"}) /\ Top.on \in BOOLEAN
    BY <1>1 DEF FrameType
  <1>3. Len(Top.left) # 1 =>
          Tail(Top.left) \in Seq(Listeners \cup {"drm", "check"}) /\ Tail(Top.left) # <<>>
    <2>1. Len(Top.left) \in Nat \ {0}
      BY <1>1, <1>2, EmptySeq
    <2>2. /\ Tail(Top.left) \in Seq(Listeners \cup {"drm", "check"})
          /\ Len(Tail(Top.left)) = Len(Top.left) - 1
      BY <1>1, <1>2, HeadTailProperties
    <2>3. Len(Top.left) # 1 => Len(Tail(Top.left)) # Len(<<>>)
      BY <2>1, <2>2
    <2> QED
      BY <2>2, <2>3
  <1>4. Len(Top.left) # 1 => rest \in Frames
    BY <1>1, <1>3 DEF Frames, FrameType
  <1>5. below \in Seq(Frames)
    BY <1>1, <1>4, PushFrame
  <1> HIDE DEF below
  <1>6. Opening \in Frames
    BY FrameIsTyped DEF Opening, Frames, FrameType, IInv, TypeOK
  <1>7. told' \in [Listeners -> BOOLEAN]
    BY <1>2 DEF TellNext, IInv, TypeOK
  <1>8. \/ TellSeat(Top.on, below)
        \/ stack' = below /\ UNCHANGED <<enabled, devices, refused>>
    BY DEF TellNext, below
  <1>9. /\ stack' \in Seq(Frames) /\ enabled' \in BOOLEAN
        /\ devices' \in {devices, NoDevices} /\ refused' \subseteq Devices
    BY <1>2, <1>5, <1>6, <1>8, PushFrame DEF TellSeat, IInv, TypeOK
  <1>10. /\ DOMAIN devices' \subseteq DOMAIN devices
         /\ \A d \in DOMAIN devices' : devices'[d] = devices[d]
    BY <1>9 DEF NoDevices
  <1>11. TypeOK'
    BY <1>7, <1>9, <1>10, FramesAreTyped DEF TellNext, IInv, TypeOK, launcher
  <1>12. (~granted => NothingWorks)'
    BY <1>10 DEF TellNext, IInv, NothingWorks, Harmless, launcher
  <1>13. GoneIsEmpty' /\ RoundIsServed'
    BY <1>1, LauncherRests DEF TellNext
  <1> QED
    BY <1>9, <1>11, <1>12, <1>13 DEF IInv

-----------------------------------------------------------------------------
(* Requests and answers *)

\* send_request() with a frame or nothing below it
LEMMA RequestSent ==
  ASSUME IInv, NEW target \in Targets, NEW below \in Seq(Frames), SendRequest(target, below)
  PROVE  /\ requests' \in Seq(Request) /\ stack' \in Seq(Frames)
         /\ \E r : requests' = Append(requests, r)
  <1> DEFINE request == [serial |-> NewSerial, target |-> target]
             frame == [Frame("wait") EXCEPT !.serial = NewSerial, !.target = target]
  <1>1. NewSerial \in Nat
    BY SerialIsNew DEF IInv
  <1>2. request \in Request /\ frame \in Frames
    BY <1>1, FrameIsTyped DEF Request, Frames, FrameType
  <1>3. requests' = Append(requests, request) /\ stack' = Append(below, frame)
    BY DEF SendRequest
  <1> HIDE DEF request, frame
  <1> QED
    BY <1>2, <1>3, PushFrame DEF IInv, TypeOK

\* A step that sends a request, or changes nothing but the frames, changes nothing else.
LEMMA AfterRequest ==
  ASSUME IInv, life # "gone", UNCHANGED <<launcher, messages, library, life, orphaned>>,
         plugged' \subseteq Devices,
         \/ \E r : requests' = Append(requests, r) /\ requests' \in Seq(Request)
         \/ requests' = requests,
         stack' \in Seq(Frames)
  PROVE  IInv'
  <1>1. TypeOK'
    BY FramesAreTyped DEF IInv, TypeOK, launcher, library
  <1>2. (~granted => NothingWorks)'
    BY DEF IInv, NothingWorks, Harmless, launcher, library
  <1>3. GoneIsEmpty' /\ RoundIsServed'
    BY LauncherRests
  <1> QED
    BY <1>1, <1>2, <1>3 DEF IInv

LEMMA OpenNextIInv == ASSUME IInv, OpenNext PROVE IInv'
  <1>1. Top \in FrameType /\ Top.do = "open" /\ Below \in Seq(Frames) /\ life # "gone"
    BY TopDoes DEF OpenNext
  <1>2. CASE \E d \in Top.devices : SendRequest(d, Append(Below, [Top EXCEPT !.devices = @ \ {d}]))
    <2>1. PICK d \in Top.devices : SendRequest(d, Append(Below, [Top EXCEPT !.devices = @ \ {d}]))
      BY <1>2
    <2>2. d \in Targets
      BY <1>1 DEF FrameType, Targets
    <2>3. [Top EXCEPT !.devices = @ \ {d}] \in Frames
      BY <1>1 DEF Frames, FrameType
    <2>4. Append(Below, [Top EXCEPT !.devices = @ \ {d}]) \in Seq(Frames)
      BY <1>1, <2>3, PushFrame
    <2> QED
      BY <1>1, <2>1, <2>2, <2>4, RequestSent, AfterRequest DEF OpenNext, IInv, TypeOK
  <1>3. CASE Top.devices = {} /\ stack' = Below /\ UNCHANGED requests
    BY <1>1, <1>3, AfterRequest DEF OpenNext, IInv, TypeOK
  <1> QED
    BY <1>2, <1>3 DEF OpenNext

LEMMA PlugIInv == ASSUME IInv, NEW d \in Devices, Plug(d) PROVE IInv'
  <1>1. stack \in Seq(Frames) /\ life # "gone" /\ plugged' \subseteq Devices /\ d \in Targets
    BY DEF Plug, IInv, TypeOK, Targets
  <1>2. CASE enabled
    BY <1>1, <1>2, RequestSent, AfterRequest DEF Plug
  <1>3. CASE ~enabled
    BY <1>1, <1>3, AfterRequest DEF Plug
  <1> QED
    BY <1>2, <1>3

LEMMA SwitchVTIInv == ASSUME IInv, SwitchVT PROVE IInv'
  <1>1. stack \in Seq(Frames) /\ life # "gone" /\ plugged' \subseteq Devices /\ "vt" \in Targets
    BY DEF SwitchVT, IInv, TypeOK, Targets
  <1> QED
    BY <1>1, RequestSent, AfterRequest DEF SwitchVT, ActivateVT

LEMMA UnplugIInv == ASSUME IInv, NEW d \in Devices, Unplug(d) PROVE IInv'
  <1>1. /\ DOMAIN devices' \subseteq DOMAIN devices
        /\ \A e \in DOMAIN devices' : devices'[e] = devices[e]
    BY DEF Unplug
  <1>2. TypeOK'
    BY <1>1 DEF Unplug, IInv, TypeOK, launcher
  <1>3. (~granted => NothingWorks)'
    BY <1>1 DEF Unplug, IInv, NothingWorks, Harmless, launcher
  <1>4. GoneIsEmpty' /\ RoundIsServed'
    BY LauncherRests DEF Unplug
  <1> QED
    BY <1>2, <1>3, <1>4 DEF Unplug, IInv

\* An answer is taken as it was sent, or made harmless since.
LEMMA FileTaken ==
  ASSUME IInv, NEW m \in Answer, TakeFile(m), ~granted => Harmless(m)
  PROVE  /\ DOMAIN devices' \subseteq Devices /\ refused' \subseteq Devices
         /\ \A d \in DOMAIN devices' : devices'[d] \in {"works", "revoked"}
         /\ ~granted => \A d \in DOMAIN devices' : devices'[d] # "works"
  <1>1. m.target \in Targets /\ m.file \in {"works", "revoked", "none"} /\ ~IsNotice(m)
    BY DEF Answer, IsNotice
  <1>2. /\ DOMAIN devices \subseteq Devices /\ refused \subseteq Devices
        /\ \A d \in DOMAIN devices : devices[d] \in {"works", "revoked"}
        /\ ~granted => \A d \in DOMAIN devices : devices[d] # "works"
    BY DEF IInv, TypeOK, NothingWorks
  <1>3. m.full => m.target \in Devices
    BY DEF Answer
  <1> QED
    BY <1>1, <1>2, <1>3 DEF TakeFile, Harmless

LEMMA ReadAnswerIInv == ASSUME IInv, ReadAnswer PROVE IInv'
  <1> DEFINE m == Head(messages)
             own == ~IsNotice(m) /\ m.serial = Top.serial
  <1>1. Below \in Seq(Frames) /\ stack \in Seq(Frames) /\ life # "gone"
    BY TopDoes DEF ReadAnswer, IInv
  <1>2. /\ m \in Answer \cup Notice /\ messages' \in Seq(Answer \cup Notice)
        /\ ~granted => Harmless(m) /\ \A i \in DOMAIN messages' : Harmless(messages'[i])
    BY FirstMessage DEF ReadAnswer
  <1>3. CASE own
    <2>1. m \in Answer
      BY <1>2, <1>3, MessageKinds
    <2>2. TakeFile(m) /\ stack' = Below /\ active' = active
      BY <1>3 DEF ReadAnswer
    <2> HIDE DEF m
    <2>3. TypeOK'
      BY <1>1, <1>2, <2>1, <2>2, FileTaken, FramesAreTyped DEF ReadAnswer, IInv, TypeOK, launcher
    <2>4. (~granted => NothingWorks)'
      BY <1>2, <2>1, <2>2, FileTaken DEF ReadAnswer, NothingWorks, Harmless, launcher
    <2> QED
      BY <1>1, <2>2, <2>3, <2>4, LauncherRests DEF ReadAnswer, IInv
  <1>4. CASE ~own
    <2>1. HandleEvent(m, stack) /\ UNCHANGED <<devices, refused>>
      BY <1>4 DEF ReadAnswer
    <2>2. active' \in BOOLEAN /\ stack' \in Seq(Frames)
      BY <1>1, <1>2, <2>1, EventHandled DEF IInv
    <2>3. TypeOK'
      BY <1>2, <2>1, <2>2, FramesAreTyped DEF ReadAnswer, IInv, TypeOK, launcher
    <2>4. (~granted => NothingWorks)'
      BY <1>2, <2>1 DEF ReadAnswer, IInv, NothingWorks, Harmless, launcher
    <2> QED
      BY <1>1, <2>2, <2>3, <2>4, LauncherRests DEF ReadAnswer, IInv
  <1> QED
    BY <1>3, <1>4

-----------------------------------------------------------------------------
(* The start of the compositor *)

Parts == {"drm", "planes", "compositor", "seat"}

LEMMA StageDone ==
  ASSUME IInv, Doing("start"), Head(Top.left) \in Parts
  PROVE  Rest \in Frames
  <1>1. Top \in FrameType /\ Top.do = "start" /\ Top.left \in Stages
    BY TopDoes DEF Frames
  <1>2. Top.left \in Seq(Listeners \cup {"drm", "check"})
    BY <1>1 DEF FrameType
  <1>3. Tail(Top.left) \in Stages
    <2>1. CASE Top.left = <<"drm", "planes", "compositor", "seat", "check">>
      <3>1. Tail(Top.left) = <<"planes", "compositor", "seat", "check">>
        BY <1>2, <2>1
      <3> QED
        BY <3>1 DEF Stages
    <2>2. CASE Top.left = <<"planes", "compositor", "seat", "check">>
      <3>1. Tail(Top.left) = <<"compositor", "seat", "check">>
        BY <1>2, <2>2
      <3> QED
        BY <3>1 DEF Stages
    <2>3. CASE Top.left = <<"compositor", "seat", "check">>
      <3>1. Tail(Top.left) = <<"seat", "check">>
        BY <1>2, <2>3
      <3> QED
        BY <3>1 DEF Stages
    <2>4. CASE Top.left = <<"seat", "check">>
      <3>1. Tail(Top.left) = <<"check">>
        BY <1>2, <2>4
      <3> QED
        BY <3>1 DEF Stages
    <2>5. Top.left # <<"check">>
      BY DEF Parts
    <2> QED
      BY <1>1, <2>1, <2>2, <2>3, <2>4, <2>5 DEF Stages
  <1>4. Tail(Top.left) \in Seq(Listeners \cup {"drm", "check"})
    BY <1>1, <1>2, HeadTailProperties DEF Stages
  <1> QED
    BY <1>1, <1>3, <1>4 DEF Rest, Frames, FrameType

LEMMA StartDrmIInv == ASSUME IInv, StartDrm PROVE IInv'
  <1>1. Rest \in Frames /\ Below \in Seq(Frames) /\ life # "gone"
    BY StageDone, TopDoes DEF StartDrm, Parts
  <1>2. Append(Below, Rest) \in Seq(Frames)
    BY <1>1, PushFrame
  <1> QED
    BY <1>1, <1>2, RequestSent, AfterRequest DEF StartDrm, Targets, IInv, TypeOK

\* A step that tells a listener what the session is, and pushes frames.
LEMMA Joined ==
  ASSUME IInv, life # "gone", NEW l \in Listeners,
         UNCHANGED <<launcher, requests, messages, active, devices, refused, plugged, life, orphaned>>,
         joined' = Append(joined, l), told' = [told EXCEPT ![l] = active],
         enabled' \in BOOLEAN, stack' \in Seq(Frames)
  PROVE  IInv'
  <1>1. joined' \in Seq(Listeners) /\ told' \in [Listeners -> BOOLEAN]
    BY DEF IInv, TypeOK
  <1>2. TypeOK'
    BY <1>1, FramesAreTyped DEF IInv, TypeOK, launcher
  <1>3. (~granted => NothingWorks)'
    BY DEF IInv, NothingWorks, Harmless, launcher
  <1> QED
    BY <1>2, <1>3, LauncherRests DEF IInv

LEMMA JoinIInv == ASSUME IInv, NEW l \in {"planes", "compositor"}, Join(l) PROVE IInv'
  <1>1. Rest \in Frames /\ Below \in Seq(Frames) /\ life # "gone" /\ l \in Listeners
    BY StageDone, TopDoes DEF Join, Parts, Listeners
  <1>2. stack' \in Seq(Frames) /\ enabled' \in BOOLEAN
    BY <1>1, PushFrame DEF Join, IInv, TypeOK
  <1> QED
    BY <1>1, <1>2, Joined DEF Join

LEMMA StartSeatIInv == ASSUME IInv, StartSeat PROVE IInv'
  <1>1. Rest \in Frames /\ Below \in Seq(Frames) /\ life # "gone" /\ "seat" \in Listeners
    BY StageDone, TopDoes DEF StartSeat, Parts, Listeners
  <1>2. Opening \in Frames
    BY FrameIsTyped DEF Opening, Frames, FrameType, IInv, TypeOK
  <1>3. Append(Below, Rest) \in Seq(Frames)
    BY <1>1, PushFrame
  <1>4. stack' \in Seq(Frames)
    BY <1>2, <1>3, PushFrame DEF StartSeat
  <1> QED
    BY <1>1, <1>4, Joined DEF StartSeat

LEMMA SuspendIfInactiveIInv == ASSUME IInv, SuspendIfInactive PROVE IInv'
  <1>1. Below \in Seq(Frames) /\ life # "gone"
    BY TopDoes DEF SuspendIfInactive
  <1>2. /\ DOMAIN devices' \subseteq DOMAIN devices
        /\ \A d \in DOMAIN devices' : devices'[d] = devices[d]
    BY DEF SuspendIfInactive, NoDevices
  <1>3. TypeOK'
    BY <1>1, <1>2, FramesAreTyped DEF SuspendIfInactive, IInv, TypeOK, launcher
  <1>4. (~granted => NothingWorks)'
    BY <1>2 DEF SuspendIfInactive, IInv, NothingWorks, Harmless, launcher
  <1> QED
    BY <1>1, <1>3, <1>4, LauncherRests DEF SuspendIfInactive, IInv

-----------------------------------------------------------------------------
(* The theorem *)

LEMMA NextIInv == ASSUME IInv, [Next]_vars PROVE IInv'
  <1>1. CASE Launcher
    BY <1>1, PollIInv, HandleSocketDataIInv, HandleReleaseIInv, HandleAcquireIInv, HandleChildIInv
    DEF Launcher
  <1>2. CASE Serving
    <2>1. StartPlanes \/ StartCompositor => IInv'
      BY JoinIInv DEF StartPlanes, StartCompositor
    <2> QED
      BY <1>2, <2>1, HandleDataIInv, TellNextIInv, ReadAnswerIInv, OpenNextIInv, StartDrmIInv,
         StartSeatIInv, SuspendIfInactiveIInv, DieIInv
      DEF Serving, LoopEnds
  <1>3. CASE Requesting
    BY <1>3, SwitchVTIInv, PlugIInv, UnplugIInv DEF Requesting
  <1>4. CASE Leave \/ Come \/ ManagerExits \/ Die
    BY <1>4, LeaveIInv, ComeIInv, ManagerExitsIInv, DieIInv
  <1>5. CASE UNCHANGED vars
    BY <1>5
    DEF vars, launcher, library, IInv, TypeOK, NothingWorks, Harmless, GoneIsEmpty, RoundIsServed
  <1> QED
    BY <1>1, <1>2, <1>3, <1>4, <1>5 DEF Next

\* Whatever the order of switches of the terminal, requests, answers, devices that
\* come and go and the death of the compositor, an input file works only
\* while the launcher holds the terminal, in the compositor or in the socket
\* (launch/launch.c 135-155, 157-184, 249-253).
THEOREM FilesWorkWhileGranted == Spec => []GrantedWhileActive
  <1>1. IInv /\ [Next]_vars => IInv'
    BY NextIInv
  <1>2. IInv => GrantedWhileActive
    BY IInvSuffices
  <1> QED
    BY InitIInv, <1>1, <1>2, PTL DEF Spec

=============================================================================
