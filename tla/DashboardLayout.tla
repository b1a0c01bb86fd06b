-------------------------- MODULE DashboardLayout --------------------------
(***************************************************************************)
(* The widget layout of the Today dashboard: the pure helpers of           *)
(* apps/web/lib/dashboard-layout-core.ts and the store in localStorage of  *)
(* dashboard-layout-storage.ts, shared by every tab of the browser.  A     *)
(* write is heard by the other tabs later; another build of the app may    *)
(* have written the value; and a write may exceed the quota.  Layouts are  *)
(* compared by value where the code compares references, and a cache is    *)
(* the raw text it was parsed from.                                        *)
(***************************************************************************)
EXTENDS ListPlaces, SequencesExt

CONSTANTS
  WidgetIds,      \* WIDGET_IDS: the canonical order
  ForeignRaws,    \* values other builds may have stored, any version
  LayoutTabs,     \* open tabs
  MaxWrites       \* bound: layout changes of a run

VARIABLES
  stored,         \* the value in localStorage
  cached,         \* tab -> the raw value its module-level cache was parsed from
  rendered,       \* tab -> the raw value of the layout React last rendered
  wake,           \* tabs with an undelivered message or storage event
  refused,        \* tabs whose latest change the quota refused (observation)
  writes          \* layout changes so far

ASSUME LayoutAssumption ==
  /\ WidgetIds \in Seq(ToSet(WidgetIds)) /\ IsInjective(WidgetIds)
  /\ \A raw \in ForeignRaws : raw.order \in Seq(ToSet(raw.order))

layoutVars == <<stored, cached, rendered, wake, refused, writes>>

Widgets == ToSet(WidgetIds)

DefaultLayout == [order |-> WidgetIds, hidden |-> {}]

NoRaw == [v |-> 0, order |-> <<>>, hidden |-> {}]

SerializeLayout(layout) == [v |-> 1, order |-> layout.order, hidden |-> layout.hidden]

(***************************************************************************)
(* dashboard-layout-core.ts                                                *)
(***************************************************************************)
Without(ids, dropped) == Picked(ids, {i \in DOMAIN ids : ids[i] \notin dropped})

\* Keep known ids only, first occurrence wins.
SanitizeIds(ids) ==
  Picked(ids, {i \in DOMAIN ids : ids[i] \in Widgets /\ \A j \in 1..(i - 1) : ids[j] # ids[i]})

Parse(raw) ==
  IF raw.v # 1 THEN DefaultLayout
  ELSE LET known == SanitizeIds(raw.order)
       IN  [order  |-> known \o Without(WidgetIds, ToSet(known)),
            hidden |-> raw.hidden \cap Widgets]

VisiblePlaces(layout) == {i \in DOMAIN layout.order : layout.order[i] \notin layout.hidden}

VisibleIds(layout) == Picked(layout.order, VisiblePlaces(layout))

\* What the caller wants to see first, known, visible and once each, and then
\* the visible ids it left out.
NextVisible(layout, ids) ==
  LET seen == Without(SanitizeIds(ids), layout.hidden)
  IN  seen \o Without(VisibleIds(layout), ToSet(seen))

\* Mutant: the visible widgets first, the hidden ones moved to the end.
HiddenToTheEnd(layout, ids) ==
  [layout EXCEPT !.order = NextVisible(layout, ids) \o Without(@, ToSet(VisibleIds(layout)))]

ReorderVisible(layout, ids) ==
  [layout EXCEPT !.order =
     [i \in DOMAIN @ |-> IF @[i] \in layout.hidden THEN @[i]
                        ELSE NextVisible(layout, ids)[CountUpTo(VisiblePlaces(layout), i)]]]

AddWidget(layout, id) == [layout EXCEPT !.hidden = @ \ {id}]

RemoveWidget(layout, id) == [layout EXCEPT !.hidden = @ \cup {id}]

(***************************************************************************)
(* dashboard-layout-storage.ts                                             *)
(***************************************************************************)
\* readLayout: the cache answers only for the text that is stored now.
ReadLayout == Parse(stored)

Shown(tab) == Parse(rendered[tab])

(* commit: nothing when the layout is the cached one; otherwise store it,  *)
(* let the listeners of this tab read again at once and the others later.  *)
(* The listeners' read compares the cached text with the stored one, so    *)
(* after a write that the quota refused it returns to what is stored: the  *)
(* change is gone at once, where the comment in the catch would keep the   *)
(* layout "for this session".                                              *)
Commit(tab, layout, next, written) ==
  /\ writes < MaxWrites
  /\ writes' = writes + 1
  /\ IF layout = next
       THEN UNCHANGED <<stored, rendered, wake, refused>>
       ELSE /\ stored' = IF written THEN SerializeLayout(next) ELSE stored
            /\ rendered' = [rendered EXCEPT ![tab] = stored']
            /\ wake' = wake \cup (LayoutTabs \ {tab})
            /\ refused' = IF written THEN refused \ {tab} ELSE refused \cup {tab}
  /\ cached' = [cached EXCEPT ![tab] = stored']

LayoutInit ==
  /\ stored \in {NoRaw} \cup ForeignRaws
  /\ cached = [tab \in LayoutTabs |-> stored]
  /\ rendered = [tab \in LayoutTabs |-> stored]
  /\ wake = {} /\ refused = {}
  /\ writes = 0

\* The grid after the widget at one place was dragged to another.
Dragged(tab, from, to) ==
  LET ids == VisibleIds(Shown(tab))
  IN  InsertAt(RemoveAt(ids, from), to, ids[from])

\* move(nextVisibleIds): the drop of a drag in the rendered grid.
Drop(tab, from, to, written) ==
  Commit(tab, ReadLayout, ReorderVisible(ReadLayout, Dragged(tab, from, to)), written)

\* The picker and the widget's own remove button: add(id), remove(id).
Toggle(tab, id, written) ==
  Commit(tab, ReadLayout,
         IF id \in Shown(tab).hidden THEN AddWidget(ReadLayout, id) ELSE RemoveWidget(ReadLayout, id),
         written)

(* reset() compares with the cache as it is, without a read: behind        *)
(* another tab's write it may take the default for already stored.         *)
Reset(tab, written) ==
  IF Parse(cached[tab]) = DefaultLayout
    THEN UNCHANGED layoutVars
    ELSE Commit(tab, Parse(cached[tab]), DefaultLayout, written)

\* The message or storage event of another tab's write arrives.
Hear(tab) ==
  /\ tab \in wake
  /\ wake' = wake \ {tab} /\ refused' = refused \ {tab}
  /\ cached' = [cached EXCEPT ![tab] = stored]
  /\ rendered' = [rendered EXCEPT ![tab] = stored]
  /\ UNCHANGED <<stored, writes>>

\* A tab that runs another build writes, or the stored data is cleared.
WriteElsewhere ==
  /\ writes < MaxWrites
  /\ writes' = writes + 1
  /\ stored' \in {NoRaw} \cup ForeignRaws
  /\ wake' = LayoutTabs
  /\ UNCHANGED <<cached, rendered, refused>>

Places(tab) == 1..Len(VisibleIds(Shown(tab)))

LayoutNext ==
  \/ \E tab \in LayoutTabs, written \in BOOLEAN :
       \/ \E from, to \in Places(tab) : from # to /\ Drop(tab, from, to, written)
       \/ \E id \in Widgets : Toggle(tab, id, written)
       \/ Reset(tab, written)
  \/ \E tab \in LayoutTabs : Hear(tab)
  \/ WriteElsewhere

LayoutSpec == LayoutInit /\ [][LayoutNext]_layoutVars

-----------------------------------------------------------------------------
(* Whatever another build stored, every tab's order holds each widget      *)
(* exactly once and hides only known ones: parseLayout drops what it does  *)
(* not know and appends what the other build did not have, and no sequence *)
(* of drops and toggles of several tabs loses or doubles a widget.         *)
LayoutsAreWhole ==
  \A tab \in LayoutTabs :
    /\ Shown(tab).hidden \subseteq Widgets
    /\ Len(Shown(tab).order) = Len(WidgetIds)
    /\ ToSet(Shown(tab).order) = Widgets

(* A tab with nothing left to hear renders what is stored, whichever tab   *)
(* wrote it.  What a tab whose own change the quota has just refused is to *)
(* render, what is stored or what was refused, is not said here.           *)
ShownIsStored ==
  \A tab \in LayoutTabs : tab \in wake \cup refused \/ Shown(tab) = Parse(stored)

(* A drop moves visible widgets only: hidden ones keep their slot for a    *)
(* later add, and a widget another tab has hidden meanwhile stays hidden   *)
(* although the dropping tab still rendered it.                            *)
HiddenStays ==
  \A tab \in LayoutTabs : \A from, to \in Places(tab), written \in BOOLEAN :
    from # to /\ Drop(tab, from, to, written) =>
      /\ Parse(stored').hidden = ReadLayout.hidden
      /\ \A i \in DOMAIN WidgetIds :
           ReadLayout.order[i] \in ReadLayout.hidden =>
             Parse(stored').order[i] = ReadLayout.order[i]

DropKeepsHidden == [][HiddenStays]_layoutVars

\* Every tab renders a whole layout, the one that is stored unless a message to it
\* is under way or its own change was refused, and a drag leaves what is hidden in
\* place.
LayoutSurvives ==
  /\ [](LayoutsAreWhole /\ ShownIsStored)
  /\ DropKeepsHidden
=============================================================================
