----------------------------- MODULE Dashboard -----------------------------
(***************************************************************************)
(* The single page in a browser: which channel it is at, which channel's   *)
(* data its panels show, and the requests in between                       *)
(* (client/src/components/Header/HeaderView.js, View/LandingPage.js,       *)
(* View/DashboardView.js, Charts/ChartStats.js and the operations and      *)
(* reducers under state/redux/charts and tables).                          *)
(*                                                                         *)
(* A request is sent at once and answered at any later time, in any order; *)
(* an answer goes to the store, whatever was asked since.  The twelve      *)
(* requests of syncData are one for each of Panels and one for the list of *)
(* channels.  Of the data of a panel only the channel it is of is kept.    *)
(* A component receives props at every change of the store that reaches    *)
(* it; as in React, this.props are the old ones while it does.             *)
(***************************************************************************)
EXTENDS Integers, FiniteSets

CONSTANTS
  Channels,
  First,          \* what curChannel answers
  Last,           \* the last channel of the list
  Charts,         \* panels ChartStats asks for by itself
  OtherPanels,    \* the others; "activity" is one
  None,           \* undefined
  MaxSelections,  \* bound: channels selected
  MaxTicks,       \* bound: timers fired and notifications
  MaxFails        \* bound: requests that fail

Panels == Charts \cup OtherPanels

(* The channels that are named exist, panels are not taken for other       *)
(* requests, and the bounds are numbers.                                   *)
DashboardParameters ==
  /\ First \in Channels /\ Last \in Channels /\ None \notin Channels
  /\ "activity" \in OtherPanels
  /\ {"channels", "current", "change"} \cap Panels = {}
  /\ {MaxSelections, MaxTicks, MaxFails} \subseteq Nat

VARIABLES
  page,          \* "start", "landing", "dashboard", or "broken" by an exception
  dbError,       \* LandingPage shows its database error
  \* the store
  current,       \* charts.channel.currentChannel
  panel,         \* [panel]: the channel its rows are of
  channelsKnown, \* tables.channels.rows is there
  \* HeaderView
  stateChannel,  \* state.currentChannel
  selected,      \* state.selectedChannel
  modal,         \* state.modalOpen
  timers,        \* intervals that run: <<id, channel>>
  handle,        \* id of the one interVal refers to
  \* DashboardView
  timeline,      \* the channel the notifications in its state are of
  \* requests
  flights,       \* requests without an answer
  pending,       \* calls of Promise.all that wait: [sync |-> , kind |-> , channel |-> ]
  syncs,         \* batches of requests so far
  overlaps,      \* history: channels selected while a selection was waited for
  selections, ticks, fails

store  == <<current, panel, channelsKnown>>
header == <<stateChannel, selected, modal, timers, handle>>
counts == <<selections, ticks, fails>>
vars == <<page, dbError, store, header, timeline, flights, pending, syncs, overlaps, counts>>

MaybeChannel == Channels \cup {None}
Flight  == [what : Panels \cup {"channels", "current", "change"}, channel : MaybeChannel,
            sync : Nat]
Waiting == [sync : Nat, kind : {"landing", "plain", "select"}, channel : MaybeChannel]

TypeOK ==
  /\ page \in {"start", "landing", "dashboard", "broken"}
  /\ dbError \in BOOLEAN
  /\ current \in MaybeChannel /\ panel \in [Panels -> MaybeChannel]
  /\ channelsKnown \in BOOLEAN
  /\ stateChannel \in MaybeChannel /\ selected \in MaybeChannel /\ modal \in BOOLEAN
  /\ timers \subseteq Nat \X MaybeChannel /\ handle \in Nat
  /\ timeline \in MaybeChannel
  /\ flights \subseteq Flight /\ pending \subseteq Waiting
  /\ syncs \in Nat /\ overlaps \in Nat
  /\ selections \in 0 .. MaxSelections /\ ticks \in 0 .. MaxTicks /\ fails \in 0 .. MaxFails

Ask(what, c, s) == [what |-> what, channel |-> c, sync |-> s]

(* What syncData asks for, as sync s.                                      *)
SyncRequests(c, s) == {Ask(p, c, s) : p \in Panels} \cup {Ask("channels", None, s)}

(* LandingPage mounts and asks for the channel first.                      *)
Init ==
  /\ page = "start" /\ dbError = FALSE
  /\ current = None /\ panel = [p \in Panels |-> None] /\ channelsKnown = FALSE
  /\ stateChannel = None /\ selected = None /\ modal = FALSE
  /\ timers = {} /\ handle = 0
  /\ timeline = None
  /\ flights = {Ask("current", None, 0)} /\ pending = {} /\ syncs = 0
  /\ overlaps = 0 /\ selections = 0 /\ ticks = 0 /\ fails = 0

-----------------------------------------------------------------------------
(* The components receive props.                                           *)

(* MUTANT of HeaderReceives: a channel that changed is not fetched.        *)
HeaderReceivesOnly(newCurrent, rest) ==
  /\ selected' = newCurrent /\ stateChannel' = current
  /\ flights' = rest /\ UNCHANGED <<syncs, pending>>

(* HeaderView.componentWillReceiveProps.  It keeps the channel of the      *)
(* props it is losing; a channel that changed is fetched.                  *)
HeaderReceives(newCurrent, rest) ==
  /\ selected' = newCurrent
  /\ stateChannel' = current
  /\ IF newCurrent # current
     THEN /\ syncs' = syncs + 1
          /\ flights' = rest \cup SyncRequests(newCurrent, syncs + 1)
          /\ pending' = pending \cup
               {[sync |-> syncs + 1, kind |-> "plain", channel |-> newCurrent]}
     ELSE flights' = rest /\ UNCHANGED <<syncs, pending>>

(* DashboardView.componentWillReceiveProps: the notifications are made of  *)
(* the activity in the props it is losing.                                 *)
DashboardReceives == timeline' = panel["activity"]

(* MUTANT of Synced: the modal is left to the user.                        *)
SyncedKeepsModal(w) ==
  /\ UNCHANGED modal
  /\ IF w.kind = "select"
     THEN /\ timers' = timers \cup {<<w.sync, w.channel>>}
          /\ handle' = w.sync
     ELSE UNCHANGED <<timers, handle>>

(* What follows when the last request of a Promise.all is answered: the    *)
(* modal is closed, and a selection sets its interval.                     *)
Synced(w) ==
  /\ modal' = FALSE
  /\ IF w.kind = "select"
     THEN /\ timers' = timers \cup {<<w.sync, w.channel>>}
          /\ handle' = w.sync
     ELSE UNCHANGED <<timers, handle>>

(* DashboardView mounts: without its data it shows the error from then on. *)
DashboardMounts ==
  /\ dbError' = (\E p \in OtherPanels : panel'[p] = None)
  /\ timeline' = panel'["activity"]

(* The header mounts with the channel of the store, and the dashboard with *)
(* its activity; a header without channels throws.                         *)
Mount ==
  IF channelsKnown'
  THEN /\ page' = "dashboard"
       /\ stateChannel' = current /\ selected' = current
       /\ timers' = {<<0, current>>} /\ handle' = 0
       /\ DashboardMounts
  ELSE /\ page' = "broken"
       /\ UNCHANGED <<dbError, stateChannel, selected, timers, handle, timeline>>

(* MUTANT of Done: the first answer counts for all of them (Promise.race). *)
DoneAtFirst(f) == {w \in pending : w.sync = f.sync}

Done(f) == {w \in pending : w.sync = f.sync /\ ~\E g \in flights \ {f} : g.sync = w.sync}

-----------------------------------------------------------------------------
(* Answers.  Landing first: the channel, then everything else at once.     *)

AnswerCurrent(f) ==
  /\ f \in flights /\ f.what = "current"
  /\ \/ current' = First /\ UNCHANGED fails
     \/ fails < MaxFails /\ fails' = fails + 1 /\ UNCHANGED current
  /\ page' = "landing" /\ syncs' = syncs + 1
  /\ flights' = (flights \ {f}) \cup SyncRequests(current', syncs + 1)
  /\ pending' = {[sync |-> syncs + 1, kind |-> "landing", channel |-> current']}
  /\ UNCHANGED <<dbError, panel, channelsKnown, header, timeline, overlaps, selections,
                 ticks>>

(* The reducers: the rows of a panel, for whichever channel they were asked. *)
Stored(f) ==
  IF f.what \in Panels THEN [panel EXCEPT ![f.what] = f.channel] ELSE panel

(* An answer while LandingPage is shown; updateLoadStatus after the last.  *)
AnswerLanding(f) ==
  /\ page = "landing" /\ f \in flights
  /\ flights' = flights \ {f}
  /\ \/ /\ panel' = Stored(f)
        /\ channelsKnown' = (channelsKnown \/ f.what = "channels")
        /\ UNCHANGED fails
     \/ /\ fails < MaxFails /\ fails' = fails + 1
        /\ UNCHANGED <<panel, channelsKnown>>
  /\ pending' = pending \ Done(f)
  /\ IF Done(f) # {} THEN Mount
     ELSE UNCHANGED <<page, dbError, stateChannel, selected, timers, handle, timeline>>
  /\ UNCHANGED <<current, modal, syncs, overlaps, selections, ticks>>

(* The 60 s of LandingPage are over.                                       *)
LandingTimeout ==
  /\ page = "landing" /\ ~dbError
  /\ dbError' = TRUE
  /\ UNCHANGED <<page, store, header, timeline, flights, pending, syncs, overlaps, counts>>

Finish(f) ==
  IF Done(f) = {} THEN UNCHANGED <<modal, timers, handle>>
  ELSE \A w \in Done(f) : Synced(w)

AnswerPanel(f) ==
  /\ page = "dashboard" /\ f \in flights /\ f.what \in Panels
  /\ panel' = Stored(f)
  /\ DashboardReceives
  /\ flights' = flights \ {f} /\ pending' = pending \ Done(f)
  /\ Finish(f)
  /\ UNCHANGED <<page, dbError, current, channelsKnown, stateChannel, selected, syncs,
                 overlaps, counts>>

(* The list of channels is a new array every time, so the header receives  *)
(* props; without a channel it asks for the last of the list.              *)
AnswerChannels(f) ==
  /\ page = "dashboard" /\ f \in flights /\ f.what = "channels"
  /\ IF current = None
     THEN /\ flights' = (flights \ {f}) \cup {Ask("change", Last, syncs + 1)}
          /\ syncs' = syncs + 1 /\ selected' = Last
     ELSE flights' = flights \ {f} /\ selected' = current /\ UNCHANGED syncs
  /\ stateChannel' = current
  /\ DashboardReceives
  /\ pending' = pending \ Done(f)
  /\ Finish(f)
  /\ UNCHANGED <<page, dbError, store, overlaps, counts>>

(* MUTANT of AnswerChange: the reducer stores the request.                 *)
AnswerChangeStoresRequest(f) ==
  /\ page = "dashboard" /\ f \in flights /\ f.what = "change"
  /\ current' = f.what
  /\ flights' = flights \ {f}
  /\ UNCHANGED <<page, dbError, panel, channelsKnown, header, timeline, syncs, pending,
                 overlaps, counts>>

(* changeChannel answers the channel it was asked for; nobody waits.       *)
AnswerChange(f) ==
  /\ page = "dashboard" /\ f \in flights /\ f.what = "change"
  /\ current' = f.channel
  /\ IF f.channel = current
     THEN /\ flights' = flights \ {f}
          /\ UNCHANGED <<stateChannel, selected, timeline, syncs, pending>>
     ELSE HeaderReceives(f.channel, flights \ {f}) /\ DashboardReceives
  /\ UNCHANGED <<page, dbError, panel, channelsKnown, modal, timers, handle, overlaps,
                 counts>>

(* A request is rejected or answered with status 400 or 500: the operation *)
(* swallows it and the store stays.                                        *)
FailRequest(f) ==
  /\ page = "dashboard" /\ f \in flights /\ fails < MaxFails
  /\ fails' = fails + 1
  /\ flights' = flights \ {f} /\ pending' = pending \ Done(f)
  /\ Finish(f)
  /\ UNCHANGED <<page, dbError, store, stateChannel, selected, timeline, syncs, overlaps,
                 selections, ticks>>

Answer(f) ==
  \/ AnswerCurrent(f) \/ AnswerLanding(f)
  \/ AnswerPanel(f) \/ AnswerChannels(f) \/ AnswerChange(f)

-----------------------------------------------------------------------------
(* What starts requests.                                                   *)

(* A selection is not done yet.                                            *)
Selecting ==
  (\E w \in pending : w.kind = "select") \/ (\E f \in flights : f.what = "change")

(* MUTANT of HandleChange: the old interval goes on.                       *)
HandleChangeKeepsInterval(c) ==
  /\ page = "dashboard" /\ ~modal /\ selections < MaxSelections
  /\ Cardinality(Channels) > 1 /\ c # selected
  /\ selections' = selections + 1
  /\ overlaps' = IF Selecting THEN overlaps + 1 ELSE overlaps
  /\ modal' = TRUE /\ selected' = c
  /\ syncs' = syncs + 2
  /\ pending' = pending \cup {[sync |-> syncs + 2, kind |-> "select", channel |-> c]}
  /\ flights' = flights \cup {Ask("change", c, syncs + 1)} \cup SyncRequests(c, syncs + 2)
  /\ UNCHANGED <<page, dbError, store, stateChannel, timers, handle, timeline, ticks, fails>>

(* handleChange: the interval is cleared, the modal opened, the channel    *)
(* changed and its data asked for.  The modal covers the selection.        *)
HandleChange(c) ==
  /\ page = "dashboard" /\ ~modal /\ selections < MaxSelections
  /\ Cardinality(Channels) > 1 /\ c # selected
  /\ selections' = selections + 1
  /\ overlaps' = IF Selecting THEN overlaps + 1 ELSE overlaps
  /\ timers' = {t \in timers : t[1] # handle}
  /\ modal' = TRUE /\ selected' = c
  /\ syncs' = syncs + 2
  /\ pending' = pending \cup {[sync |-> syncs + 2, kind |-> "select", channel |-> c]}
  /\ flights' = flights \cup {Ask("change", c, syncs + 1)} \cup SyncRequests(c, syncs + 2)
  /\ UNCHANGED <<page, dbError, store, stateChannel, handle, timeline, ticks, fails>>

(* A click beside the dialog closes it.                                    *)
HandleClose ==
  /\ modal
  /\ modal' = FALSE
  /\ UNCHANGED <<page, dbError, store, stateChannel, selected, timers, handle, timeline,
                 flights, pending, syncs, overlaps, counts>>

SyncData(c) ==
  /\ page = "dashboard" /\ ticks < MaxTicks
  /\ ticks' = ticks + 1
  /\ syncs' = syncs + 1
  /\ pending' = pending \cup {[sync |-> syncs + 1, kind |-> "plain", channel |-> c]}
  /\ flights' = flights \cup SyncRequests(c, syncs + 1)
  /\ UNCHANGED <<page, dbError, store, header, timeline, overlaps, selections, fails>>

(* The interval of the header.                                             *)
Tick == \E t \in timers : SyncData(t[2])

(* A notification of a new block.                                          *)
HandleData == SyncData(stateChannel)

(* The interval of ChartStats asks for the charts of the store's channel,  *)
(* and the selection's focus for the channels; nobody waits for them.      *)
ChartTick ==
  /\ page = "dashboard" /\ ticks < MaxTicks
  /\ ticks' = ticks + 1 /\ syncs' = syncs + 1
  /\ flights' = flights \cup {Ask(p, current, syncs + 1) : p \in Charts}
  /\ UNCHANGED <<page, dbError, store, header, timeline, pending, overlaps, selections,
                 fails>>

ReloadChannels ==
  /\ page = "dashboard" /\ ticks < MaxTicks
  /\ ticks' = ticks + 1 /\ syncs' = syncs + 1
  /\ flights' = flights \cup {Ask("channels", None, syncs + 1)}
  /\ UNCHANGED <<page, dbError, store, header, timeline, pending, overlaps, selections,
                 fails>>

(* Every request is answered in the end or fails.                          *)
Answered == \E f \in flights : Answer(f) \/ FailRequest(f)

Next ==
  \/ Answered
  \/ LandingTimeout
  \/ \E c \in Channels : HandleChange(c)
  \/ HandleClose
  \/ Tick \/ HandleData \/ ChartTick \/ ReloadChannels

Fairness == WF_vars(Answered)

Spec     == Init /\ [][Next]_vars
LiveSpec == Spec /\ Fairness

-----------------------------------------------------------------------------
(* Properties.                                                             *)

Quiet == page = "dashboard" /\ flights = {}

(* When nothing is in flight the header shows, keeps and will refresh on   *)
(* the next notification the channel the store is at, in whatever order    *)
(* the answers came, although each answer leaves it one change behind.     *)
HeaderAgrees == Quiet /\ fails = 0 => selected = current /\ stateChannel = current

(* The interval polls the selected channel and there is one of it, unless  *)
(* a channel was selected while a selection was still waited for           *)
(* (HeaderView.handleChange).                                              *)
OneTimer ==
  Quiet /\ overlaps = 0 =>
    /\ Cardinality(timers) = 1
    /\ fails = 0 => \A t \in timers : t[2] = current
    /\ \A t \in timers : t[1] = handle

(* The dashboard is only shown when every panel has been answered.         *)
NothingUndefined ==
  page = "dashboard" /\ fails = 0 =>
    ~dbError /\ current # None /\ channelsKnown /\ \A p \in Panels : panel[p] # None

(* "Loading Channel Details" goes away, whether requests succeed or fail.  *)
ModalCloses == modal ~> ~modal

(* After one selection the activity stream is the selected channel's, though *)
(* each props leave it with the activity of those before.                    *)
TimelineOfSelected ==
  Quiet /\ fails = 0 /\ ticks = 0 /\ selections <= 1 => timeline = selected

(* What holds of the parts of the page, each under its condition: the      *)
(* header, its interval, the first data and the activity stream, but not   *)
(* the channel of the panels (HeaderView, LandingPage, DashboardView).     *)
DashboardAgrees == HeaderAgrees /\ OneTimer /\ NothingUndefined /\ TimelineOfSelected

-----------------------------------------------------------------------------
(* What the documentation says and the code does not do (README, 5).       *)

(* Once every answer has come the panels are those of the selected channel *)
(* (docs/source/presentation/index.rst:30).                                *)
PanelsOfSelected ==
  Quiet /\ fails = 0 => \A p \in Panels : panel[p] = selected

=============================================================================
