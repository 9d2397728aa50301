------------------------------ MODULE MCPages ------------------------------
(***************************************************************************)
(* The pages of the administration in a browser tab: a list page, and the  *)
(* session that the requests of any page may find ended.  ListPage knows   *)
(* nothing of sessions, BrowserSession nothing of what a page asks for:    *)
(* TLC explores the one and then the other, and the variables of the other *)
(* never change.                                                           *)
(* A list page is explored by its uses: each page once for every way it    *)
(* differs, and for each question the controls, the rows and the acts it   *)
(* takes.                                                                  *)
(***************************************************************************)
EXTENDS ListPage

CONSTANTS Paths, Home, MaxRequests, OtherTabs, MaxMishaps

VARIABLES
  explored,
  session, on, path, returnTo, flow, form, waiting, started, redirects, known, wanted, lost,
  mishaps

Tab == INSTANCE BrowserSession

ASSUME PagesAssumption == Tab!TabAssumption

tabVars ==
  <<session, on, path, returnTo, flow, form, waiting, started, redirects, known, wanted, lost,
    mishaps>>
mcVars == <<explored, vars, tabVars>>

Searchable == {Users, Paks, KgPrefixes, DefectTypes, Batches, BatchPage}
Tabbed == {Users, Paks, Batches, DefectTypes}
Sortable == {Users, KgVersions, ProductionOrders, Batches, AuditPage}

(* Clicks and keys while the route of the one before is still loading.      *)
Hurried ==
  {[Use(p, {"filter", "query", "page", "focus", "retry"}, 3) EXCEPT
      !.fresh = FALSE, !.removals = TRUE, !.others = 1] : p \in Searchable}
Tabs ==
  {[Use(p, {"tab", "status", "filter", "history"}, 4) EXCEPT
      !.fresh = FALSE, !.total = 1] : p \in Tabbed}

(* Pages of one row or two, narrowed, widened, gone back to, with rows that *)
(* come.                                                                   *)
Paging ==
  {[Use(p, {"filter", "query", "page", "size", "history"}, 3) EXCEPT !.others = 1] : p \in Searchable}

Sorting ==
  {Use(p, {"tab", "sort", "size", "query", "history", "page", "filter"}, 3) : p \in Sortable}

(* Rows that go while a page of them is in view.                            *)
Emptying ==
  {[Use(p, {"filter", "page", "history", "focus"}, 3) EXCEPT !.removals = TRUE, !.others = 2] :
     p \in {Users, BatchPage, AuditPage}}

AllUses == Hurried \cup Tabs \cup Paging \cup Sorting \cup Emptying

-----------------------------------------------------------------------------
MCInit ==
  /\ explored \in {"list", "session"}
  /\ Init /\ Tab!Init
  /\ explored = "list" => session /\ path = Home
  /\ explored = "session" => use = CHOOSE u \in Uses : TRUE

OfList(action) == explored = "list" /\ action /\ UNCHANGED <<explored, tabVars>>
OfSession(action) == explored = "session" /\ action /\ UNCHANGED <<explored, vars>>

MCNext == OfList(Next) \/ OfSession(Tab!Next)

(* The fairness of the part that is explored.  Of a list: the timer fires, *)
(* the router loads, and a request for the rows ends.  Of a session:       *)
(* answers arrive, effects run, navigations end.                           *)
MCSpec ==
  /\ MCInit /\ [][MCNext]_mcVars
  /\ WF_mcVars(OfList(TimerFires))
  /\ WF_mcVars(OfList(Land))
  /\ WF_mcVars(OfList(RowsAnswered))
  /\ WF_mcVars(OfList(RowsArrived \/ RowsFailed))
  /\ WF_mcVars(OfSession(Tab!Answered))
  /\ WF_mcVars(OfSession(Tab!Redirect))
  /\ WF_mcVars(OfSession(Tab!Enter))
  /\ WF_mcVars(OfSession(Tab!StartFlow))
  /\ WF_mcVars(OfSession(Tab!KratosAnswers))
  /\ WF_mcVars(OfSession(Tab!FlowArrived))

-----------------------------------------------------------------------------
(* However clicks, keys and answers interleave, in the end the address,    *)
(* the page, the search box and the rows agree.                            *)
ListSettles == explored = "list" => PageSettles

(* Signing in leads back to the page the person was sent away from,        *)
(* through flows that expire on the way, unless the tab lost the address.  *)
SignInReturns == Tab!SignInReturns

(* A person refused on a page comes to the login form or is told that it   *)
(* could not be loaded, also who goes back on the way.                     *)
FormIsReached == Tab!FormIsReached
=============================================================================
