--------------------------- MODULE MCDeviceSync ---------------------------
(***************************************************************************)
(* Instances of DeviceSync: two routers, two IPs, four codes.  PPP-a roams *)
(* between the routers, HS-h is a hotspot user, LIST an address-list       *)
(* entry.                                                                  *)
(***************************************************************************)
EXTENDS DeviceSync, TLC

CONSTANTS r1, r2, ip1, ip2, PPPa, PPPb, HSh, LIST

MCPriority == [pppoe |-> 4, hotspot |-> 3, dhcp |-> 2, address_list |-> 1]

Rep(c, s, ip) == [code |-> c, src |-> s, ip |-> ip]
Entry(c, s, ip, r) == [code |-> c, src |-> s, ip |-> ip, router |-> r]

RescanCall(r) == [router |-> r, user |-> Rescan]
UserCall(r, c) == [router |-> r, user |-> c]

\* One IP contended for by two sources on two routers; PPP-a roams to another IP.
\* The operator enters the address-list entry as a row of their own, on the other
\* router, and asks for rescans.
DeviceReports == r1 :> {Rep(PPPa, "pppoe", ip1)}
              @@ r2 :> {Rep(PPPa, "pppoe", ip2), Rep(LIST, "address_list", ip1)}
OperatorRows  == {Entry(LIST, "address_list", ip1, r1)}
OperatorCalls == {RescanCall(r2)}

\* PPP-a stays connected to r1, whose address list holds its IP with the rate (as
\* MIKROTIK_RATE_SETUP.md has it); others come and go on the second IP.  Calls also
\* name PPP-b, who has no session.
SteadyReports == r1 :> {Rep(PPPa, "pppoe", ip1), Rep(LIST, "address_list", ip1)}
              @@ r2 :> {Rep(HSh, "hotspot", ip2)}
SteadySet     == {<<r1, Rep(PPPa, "pppoe", ip1)>>}
SteadyCalls   == {UserCall(r1, PPPa), UserCall(r1, PPPb), UserCall(r2, PPPa)}

\* Who SteadyStaysShaped and the liveness speak of.
ASSUME SteadyUncontested == \A s \in Steady : Uncontested(s)

\* The session of an unreachable router and an address-list entry elsewhere.
OutageReports == r1 :> {Rep(PPPa, "pppoe", ip1)} @@ r2 :> {Rep(LIST, "address_list", ip1)}
============================================================================
