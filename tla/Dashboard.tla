------------------------------- MODULE Dashboard -------------------------------
(***************************************************************************)
(* The pages of the dashboard (src/dashboard/app).  The router shows one   *)
(* page at a time; navigation unmounts it, state and all, so a behaviour   *)
(* is one visit to one page.  view is what the components of the page      *)
(* remember, net the routes behind it and the requests in flight.  The     *)
(* properties are what a user may rely on, whatever page it is.            *)
(***************************************************************************)
EXTENDS Integers

CONSTANTS
    None,
    SettingsKeys, Tiers, UserTier, MaxOps, MaxFaults,      \* SettingsPage
    Providers, PickerCalls,                                \* ModelPicker
    Tools, ModalCalls, MaxEdits,                           \* FirewallModal
    Keys, MaxRows, Cap, PageLen,                           \* LiveFeed
    Tabs, MaxStarts, MaxTurns,                             \* Recording
    Agents, Sessions, Models, PageSize, Window, Clicks,    \* TelemetryBoard
    Texts, MaxLen, MaxWords,                               \* PayloadDiff
    MaxSends,                                              \* Playground
    PanelKeys, LocalKeys, PanelCalls,                      \* PanelModels
    Pages, MaxLoads, ContentTurns,                         \* ContentEditor
    Queries, MaxPages, MaxLists,                           \* RequestExplorer
    Levels, LogRows, LogCap, Take, LogTurns,               \* LogConsole
    Alerts, MaxChanges                                     \* AlertRules

VARIABLES
    route,      \* the page, or the dialog of it, that is shown
    view, net

vars == <<route, view, net>>

Settings == INSTANCE SettingsPage WITH Keys <- SettingsKeys
Picker == INSTANCE ModelPicker WITH MaxCalls <- PickerCalls
Firewall == INSTANCE FirewallModal WITH MaxCalls <- ModalCalls
Feed == INSTANCE LiveFeed
Record == INSTANCE Recording
Board == INSTANCE TelemetryBoard WITH MaxTurns <- Clicks
Diff == INSTANCE PayloadDiff
Play == INSTANCE Playground WITH MaxTurns <- Clicks
Panel == INSTANCE PanelModels WITH Keys <- PanelKeys, Local <- LocalKeys,
                                   MaxCalls <- PanelCalls
Content == INSTANCE ContentEditor WITH MaxTurns <- ContentTurns
Explorer == INSTANCE RequestExplorer WITH MaxTurns <- Clicks
Lines == INSTANCE LineDiff
Console == INSTANCE LogConsole
Rules == INSTANCE AlertRules

\* None is told from what it stands for the absence of, and the bounds leave
\* room for what every visit starts with, for a row on a page of the board and
\* for a row in an answer of the log stream.
ASSUME ConstantsAssumption ==
    /\ None \notin Int /\ None \notin Providers /\ None \notin PanelKeys
    /\ None \notin Panel!Call /\ None \notin Explorer!Cursor
    /\ SettingsKeys # {} /\ UserTier \in Tiers
    /\ \A bound \in {MaxOps, MaxFaults, PickerCalls, ModalCalls, MaxEdits,
                     MaxStarts, MaxSends, Clicks, PanelCalls, ContentTurns,
                     MaxChanges, MaxTurns, Cap, PageLen, Window, MaxLen,
                     MaxWords, LogRows, LogCap, LogTurns} :
            bound \in Nat
    /\ \A bound \in {MaxLoads, MaxPages, MaxLists, MaxRows, PageSize, Take} :
            bound \in Nat \ {0}

Init ==
    \/ route = "settings" /\ Settings!Init
    \/ route = "picker" /\ Picker!Init
    \/ route = "firewall" /\ Firewall!Init
    \/ route = "feed" /\ Feed!Init
    \/ route = "record" /\ Record!Init
    \/ route = "board" /\ Board!Init
    \/ route = "diff" /\ Diff!Init
    \/ route = "play" /\ Play!Init
    \/ route = "panel" /\ Panel!Init
    \/ route = "content" /\ Content!Init
    \/ route = "explorer" /\ Explorer!Init
    \/ route = "lines" /\ Lines!Init
    \/ route = "console" /\ Console!Init
    \/ route = "rules" /\ Rules!Init

Page ==
    \/ route = "settings" /\ Settings!Next
    \/ route = "picker" /\ Picker!Next
    \/ route = "firewall" /\ Firewall!Next
    \/ route = "feed" /\ Feed!Next
    \/ route = "record" /\ Record!Next
    \/ route = "board" /\ Board!Next
    \/ route = "diff" /\ Diff!Next
    \/ route = "play" /\ Play!Next
    \/ route = "panel" /\ Panel!Next
    \/ route = "content" /\ Content!Next
    \/ route = "explorer" /\ Explorer!Next
    \/ route = "lines" /\ Lines!Next
    \/ route = "console" /\ Console!Next
    \/ route = "rules" /\ Rules!Next

Next == Page /\ UNCHANGED route

Spec == Init /\ [][Next]_vars

\* The fairness of the pages that poll or stream, each while it is shown.
Polling == route = "firewall" /\ \E i \in Firewall!CallIds : Firewall!Poll(i)
Serving(i) == route = "firewall" /\ Firewall!Serve(i)
Committing == route = "feed" /\ Feed!CommitRow
Connecting == route = "feed" /\ Feed!Connect
Streaming == route = "feed" /\ Feed!Event
Scanning(i) == route = "feed" /\ Feed!Scan(i)
Scanned(i) == route = "feed" /\ Feed!ScanAnswered(i)

Fairness ==
    /\ WF_vars(Polling /\ UNCHANGED route)
    /\ \A i \in Firewall!CallIds : WF_vars(Serving(i) /\ UNCHANGED route)
    /\ WF_vars(Committing /\ UNCHANGED route)
    /\ WF_vars(Connecting /\ UNCHANGED route)
    /\ WF_vars(Streaming /\ UNCHANGED route)
    /\ \A i \in Feed!ScanIds :
        /\ WF_vars(Scanning(i) /\ UNCHANGED route)
        /\ WF_vars(Scanned(i) /\ UNCHANGED route)

FairSpec == Spec /\ Fairness

-----------------------------------------------------------------------------
\* The state of every page has its type.
TypeOK ==
    /\ route = "settings" => Settings!TypeOK
    /\ route = "picker" => Picker!TypeOK
    /\ route = "firewall" => Firewall!TypeOK
    /\ route = "feed" => Feed!TypeOK
    /\ route = "record" => Record!TypeOK
    /\ route = "board" => Board!TypeOK
    /\ route = "diff" => Diff!TypeOK
    /\ route = "play" => Play!TypeOK
    /\ route = "panel" => Panel!TypeOK
    /\ route = "content" => Content!TypeOK
    /\ route = "explorer" => Explorer!TypeOK
    /\ route = "lines" => Lines!TypeOK
    /\ route = "console" => Console!TypeOK
    /\ route = "rules" => Rules!TypeOK

\* When nothing is on its way, a page shows what belongs to its selection and
\* what the server holds, with the exceptions each page states: answers that
\* nothing cancels and that overtake each other.  What the proxy blocks for a
\* key can be unblocked in the firewall dialog.
ShownIsCurrent ==
    /\ route = "settings" => Settings!ShownIsCurrent
    /\ route = "picker" => Picker!ShownIsCurrent
    /\ route = "firewall" => Firewall!DenialIsListed
    /\ route = "feed" => Feed!ShownIsCurrent
    /\ route = "board" => Board!ShownIsCurrent
    /\ route = "panel" => Panel!ShownIsCurrent
    /\ route = "content" => Content!ShownIsCurrent
    /\ route = "explorer" => Explorer!ShownIsCurrent
    /\ route = "rules" => Rules!ShownIsCurrent

\* A spinner stands only while somebody is still to take it away, and a
\* message of the settings or of the content page says what happened on the
\* server.
FeedbackIsHonest ==
    /\ route = "settings" => Settings!LoadingHasAnEnd /\ Settings!ToastsAreHonest
    /\ route = "picker" => Picker!LoadingHasAnEnd
    /\ route = "board" => Board!LoadingHasAnEnd
    /\ route = "play" => Play!LoadingHasAnEnd
    /\ route = "panel" => Panel!LoadingHasAnEnd
    /\ route = "content" => Content!LoadingHasAnEnd /\ Content!ToastsAreHonest
    /\ route = "explorer" => Explorer!LoadingHasAnEnd

\* While a page records, its keys are tagged; once it stopped, they are not.
RecordingIsTagged ==
    route = "record" => Record!RecordingIsTagged /\ Record!StopRemovesItsTag

\* The live list has every row once, whichever way it came, and so has the
\* console over one connection; the streams pass over no row that they could
\* have found; the groups of the board partition its rows.  The summary of an
\* agent or a model is that of the rows of its group, the summary of a session
\* that of the rows that carry its id and of no others: a row the group has by
\* its signature alone is left out.
EveryRowOnce ==
    /\ route = "feed" => Feed!LiveRowsMerge /\ Feed!NothingSkipped
    /\ route = "console" => Console!RowsComeOnce /\ Console!NothingSkipped
    /\ route = "board" => Board!EveryRowCountedOnce /\ Board!SummaryIsTheBucket

\* The comparisons of two payloads spell out both of them.
DiffLosesNothing ==
    /\ route = "diff" => Diff!DiffLosesNothing
    /\ route = "lines" => Lines!DiffLosesNothing

\* What arrives late is put where it was asked for: a streamed answer below its
\* prompt, an upload into its section, a form into the page it was loaded from.
AnswersFindTheirPlace ==
    /\ route = "play" => Play!AnswersStayInTurn
    /\ route = "content" => Content!UploadsStayInSection
    /\ route = "content" => Content!SavedWhereItBelongs

\* The open firewall dialog shows the denied tools of the server again and
\* again, and every committed row of the selected key that the stream did not
\* pass over is shown in the end.
DialogCatchesUp == []<>(route = "firewall" /\ view.open
                            => view.denied = net.denied)
FeedCatchesUp ==
    <>[](route = "feed" =>
            {r \in net.committed \ net.missed :
                view.filter.key \in {None, net.keyOf[r]}} \subseteq view.seen)
ViewsCatchUp == DialogCatchesUp /\ FeedCatchesUp
=============================================================================
