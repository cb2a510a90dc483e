--------------------------- MODULE MCPortalSession ---------------------------
(* PortalSession for TLC: two tabs that sign in by SSO, with the password, or  *)
(* one each way, with /metrics open and protected; and one tab whose login    *)
(* form is submitted twice and whose requests overlap.                       *)
EXTENDS PortalSession

CONSTANT t1

TwoTabs(metricsToken, logins, requestsOfTab, reloadsOfApp) ==
    [metricsToken |-> metricsToken, tabs |-> Tabs, flows |-> logins,
     requests |-> requestsOfTab, reloads |-> reloadsOfApp]
OneTab(metricsToken, reloadsOfApp) ==
    [metricsToken |-> metricsToken, tabs |-> {t1}, flows |-> 0,
     requests |-> 2, reloads |-> reloadsOfApp]

SomeScopes ==
    {TwoTabs(FALSE, 2, 0, 1), TwoTabs(FALSE, 0, 1, 0), TwoTabs(TRUE, 1, 0, 0),
     TwoTabs(TRUE, 0, 1, 0), OneTab(FALSE, 1), OneTab(TRUE, 0)}
=============================================================================
