------------------------------ MODULE MCPages ------------------------------
(* Instances of Pages for TLC.                                             *)
EXTENDS Pages

-----------------------------------------------------------------------------
(* Signing in.                                                             *)

(* One tab, two networks, one of them with authentication.                 *)
OneTab == [
  Tabs |-> {"t1"}, Networks |-> {"n", "m"}, FirstNetwork |-> "n", AuthEnabled |-> {"m"},
  MaxTokens |-> 3, MaxPolls |-> 1, MaxOpens |-> 3, MaxFails |-> 1]

(* Two tabs of one browser, a network without authentication.              *)
TwoTabs == [
  Tabs |-> {"t1", "t2"}, Networks |-> {"n"}, FirstNetwork |-> "n", AuthEnabled |-> {},
  MaxTokens |-> 2, MaxPolls |-> 1, MaxOpens |-> 2, MaxFails |-> 1]

MCSessions == [oneTab |-> OneTab, twoTabs |-> TwoTabs]

-----------------------------------------------------------------------------
(* The single page.                                                        *)

(* The header: channels selected one after the other.                      *)
Header == [
  Channels |-> {"a", "b"}, First |-> "a", Last |-> "b", Charts |-> {},
  OtherPanels |-> {"activity"}, MaxSelections |-> 2, MaxTicks |-> 1, MaxFails |-> 0]

(* One selection, with requests that fail.                                 *)
Failing == [
  Channels |-> {"a", "b"}, First |-> "a", Last |-> "b", Charts |-> {"perHour"},
  OtherPanels |-> {"activity"}, MaxSelections |-> 1, MaxTicks |-> 0, MaxFails |-> 1]

(* The charts, with their interval.                                        *)
Charting == [
  Channels |-> {"a", "b"}, First |-> "a", Last |-> "b", Charts |-> {"perHour"},
  OtherPanels |-> {"activity"}, MaxSelections |-> 1, MaxTicks |-> 1, MaxFails |-> 0]

MCDashboards == [header |-> Header, failing |-> Failing, charting |-> Charting]

-----------------------------------------------------------------------------
(* The panel of users.                                                     *)

(* The form, filled and sent twice.                                        *)
Form == [
  Users |-> {"root", "u"}, Root |-> "root", Passwords |-> {"p", "q"},
  MaxEdits |-> 6, MaxSubmits |-> 2, MaxDeletes |-> 0, MaxFails |-> 0]

(* Users deleted, and one registered.                                      *)
Deleting == [
  Users |-> {"root", "u"}, Root |-> "root", Passwords |-> {"p"},
  MaxEdits |-> 3, MaxSubmits |-> 1, MaxDeletes |-> 2, MaxFails |-> 1]

MCUserPanels == [form |-> Form, deleting |-> Deleting]

-----------------------------------------------------------------------------
(* What is checked of these instances alone.                               *)

(* Session and Dashboard: no page waits for ever.  The landing page is     *)
(* left, without authentication a page logs in by itself, and the modal    *)
(* "Loading Channel Details" is closed.  Where two tabs are they are alike *)
(* and one stands for both; the modal is that of every part.               *)
PagesGoOn ==
  /\ S("oneTab")!LandingLeft("t1")
  /\ part = "twoTabs" => S("twoTabs")!SkipsLogin("t1")
  /\ D("failing")!ModalCloses

=============================================================================
