-------------------------- MODULE ComponentsProofs --------------------------
(***************************************************************************)
(* Proofs about the components side by side: seen from a component, the    *)
(* whole is the component alone, which pauses while another moves.  What   *)
(* is proved of a component alone therefore holds of the whole, and what   *)
(* is explored of the whole are behaviours of each component.              *)
(***************************************************************************)
EXTENDS MCComponents, ServerProofs, ClientProofs, AlgorithmProofs

(* A step is one of the component whose turn it is, and changes nothing of the others. *)
LEMMA OneMoves ==
  ASSUME [ComponentsNext]_vars
  PROVE  /\ [LiveEventsNext]_lvars /\ [WebhooksNext]_wvars /\ [DirectoryNext]_dvars /\ [SessionNext]_svars
         /\ [UnreadNext]_uvars /\ [DmsNext]_mvars /\ [RoomsRegistryNext]_gvars /\ [ScheduleNext]_tvars
         /\ [AutosaveNext]_nvars /\ [DeskNext]_kvars /\ [UpdaterNext]_pvars /\ [MessageViewNext]_viewvars
<1>1. UNCHANGED vars =>
        /\ UNCHANGED lvars /\ UNCHANGED wvars /\ UNCHANGED dvars /\ UNCHANGED svars
        /\ UNCHANGED uvars /\ UNCHANGED mvars /\ UNCHANGED gvars /\ UNCHANGED tvars
        /\ UNCHANGED nvars /\ UNCHANGED kvars /\ UNCHANGED pvars /\ UNCHANGED viewvars
  BY DEF vars
<1>2. [LiveEventsNext]_lvars
  BY <1>1, Zenon DEF ComponentsNext, OthersStill, Still, LiveEventsNext
<1>3. [WebhooksNext]_wvars
  BY <1>1, Zenon DEF ComponentsNext, OthersStill, Still
<1>4. [DirectoryNext]_dvars
  BY <1>1, Zenon DEF ComponentsNext, OthersStill, Still
<1>5. [SessionNext]_svars
  BY <1>1, Zenon DEF ComponentsNext, OthersStill, Still
<1>6. [UnreadNext]_uvars
  BY <1>1, Zenon DEF ComponentsNext, OthersStill, Still
<1>7. [DmsNext]_mvars
  BY <1>1, Zenon DEF ComponentsNext, OthersStill, Still
<1>8. [RoomsRegistryNext]_gvars
  BY <1>1, Zenon DEF ComponentsNext, OthersStill, Still
<1>9. [ScheduleNext]_tvars
  BY <1>1, Zenon DEF ComponentsNext, OthersStill, Still
<1>10. [AutosaveNext]_nvars
  BY <1>1, Zenon DEF ComponentsNext, OthersStill, Still
<1>11. [DeskNext]_kvars
  BY <1>1, Zenon DEF ComponentsNext, OthersStill, Still
<1>12. [UpdaterNext]_pvars
  BY <1>1, Zenon DEF ComponentsNext, OthersStill, Still
<1>13. [MessageViewNext]_viewvars
  BY <1>1, Zenon DEF ComponentsNext, OthersStill, Still
<1> QED
  BY <1>2, <1>3, <1>4, <1>5, <1>6, <1>7, <1>8, <1>9, <1>10, <1>11, <1>12, <1>13

(* The components side by side implement each of them. *)
THEOREM SideBySide ==
  ComponentsSpec => /\ LiveEventsSpec /\ WebhooksSpec /\ DirectorySpec /\ SessionSpec
                    /\ UnreadSpec /\ DmsSpec /\ RoomsRegistrySpec /\ ScheduleSpec
                    /\ AutosaveSpec /\ DeskSpec /\ UpdaterSpec /\ MessageViewSpec
<1>1. ComponentsInit => /\ LiveEventsInit /\ WebhooksInit /\ DirectoryInit /\ SessionInit
                         /\ UnreadInit /\ DmsInit /\ RoomsRegistryInit /\ ScheduleInit
                         /\ AutosaveInit /\ DeskInit /\ UpdaterInit /\ MessageViewInit
  BY Zenon DEF ComponentsInit
<1>2. [ComponentsNext]_vars =>
        /\ [LiveEventsNext]_lvars /\ [WebhooksNext]_wvars /\ [DirectoryNext]_dvars /\ [SessionNext]_svars
        /\ [UnreadNext]_uvars /\ [DmsNext]_mvars /\ [RoomsRegistryNext]_gvars /\ [ScheduleNext]_tvars
        /\ [AutosaveNext]_nvars /\ [DeskNext]_kvars /\ [UpdaterNext]_pvars /\ [MessageViewNext]_viewvars
  BY OneMoves
<1> QED
  BY <1>1, <1>2, PTL
     DEF ComponentsSpec, LiveEventsSpec, WebhooksSpec, DirectorySpec, SessionSpec, UnreadSpec, DmsSpec,
         RoomsRegistrySpec, ScheduleSpec, AutosaveSpec, DeskSpec, UpdaterSpec, MessageViewSpec

(* Type correctness of the whole: every component keeps its variables in their types,
   whatever the others do. *)
THEOREM ComponentsTypes == ComponentsSpec => []ComponentsTypeOK
  BY SideBySide, LiveEventsTypes, WebhooksTypes, DirectoryTypes, SessionTypesHold, UnreadTypesHold,
     DmsTypes, RoomsRegistryTypes, ScheduleTypes, AutosaveTypes, DeskTypes, UpdaterTypes, ViewTypes, PTL
     DEF ComponentsTypeOK

(* Whatever the components do, in whatever order, each keeps what it promises: the
   properties of the server, of the accounts and counts, between accounts and of what is
   computed, all at once and for every value of the constants. *)
THEOREM ComponentsKeepPromises ==
  ComponentsSpec =>
    [](/\ StaysRevoked /\ StreamMatchesMembership /\ RegistryExact /\ RevokedIsRefused /\ DirectoryExact
       /\ NoneClobbered /\ SessionIsActive /\ NoBleeding /\ OverlayIsLifted /\ ReadIsRead /\ CountSurvives
       /\ KeepsLastGood /\ CommitsEachOnce /\ ServesWhole
       /\ SameRoomInTurn /\ AnsweredWhenGone /\ OneNodeInTurn
       /\ FiresNext /\ FoldsAgree /\ TapIsOpposite)
<1>1. ComponentsSpec => [](StaysRevoked /\ StreamMatchesMembership /\ RegistryExact /\ RevokedIsRefused /\ DirectoryExact)
  BY SideBySide, StoreUnderStreams, RevocationsStay, StreamsMatchMembership, RegistryIsExact, RevokedAreRefused,
     DirectoryIsExact, PTL
<1>2. ComponentsSpec => [](NoneClobbered /\ SessionIsActive /\ NoBleeding /\ OverlayIsLifted /\ ReadIsRead /\ CountSurvives)
  BY SideBySide, AccountsAreKept, SessionFollowsVault, NothingBleeds, OverlaysAreLifted, ReadStaysRead, CountsSurvive, PTL
<1>3. ComponentsSpec => [](KeepsLastGood /\ CommitsEachOnce /\ ServesWhole)
  BY SideBySide, LastGoodIsKept, AutosaveCommitsOnce, WholeIsServed, PTL
<1>4. ComponentsSpec => [](SameRoomInTurn /\ AnsweredWhenGone /\ OneNodeInTurn)
  BY SideBySide, SameRoomWhenInTurn, RequestsAreAnswered, OneNodeEach, PTL
<1>5. ComponentsSpec => [](FiresNext /\ FoldsAgree /\ TapIsOpposite)
  BY SideBySide, FiresAtTheNext, OneView, TapsToggle, PTL
<1> QED
  BY <1>1, <1>2, <1>3, <1>4, <1>5, PTL
=============================================================================
