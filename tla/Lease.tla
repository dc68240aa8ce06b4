------------------------------- MODULE Lease -------------------------------
(***************************************************************************)
(* The address, the default route and the name servers of a running DewOS. *)
(* They are set by the event script that udhcpc calls, one command after   *)
(* the other.  netup's lock lets one client of its own run at a time;      *)
(* "network dhcp" in PID 1's shell takes no lock, so two scripts may be at *)
(* work at once, on the same interface or on two.                          *)
(*                                                                         *)
(* "network test" (app/init/network.cpp) reads the three one by one        *)
(* meanwhile, and "netlog" (app/init/shell.cpp) shows a log.               *)
(***************************************************************************)
EXTENDS Naturals, Sequences, Functions

CONSTANTS
  Ifaces,   \* network interfaces
  Offers,   \* of each interface, the leases its DHCP servers may offer:
            \* address, router or Nothing, name servers
  Public,   \* the name servers of the script: 1.1.1.1 and 8.8.8.8
  Nothing   \* no router, no route, no lease

\* The script's own name servers are there; an offer may bring none.
ASSUME OffersAssumption ==
  /\ \A i \in Ifaces : \A o \in Offers[i] :
       DOMAIN o = {"ip", "router", "dns"} /\ o.dns \in Seq(Range(o.dns))
  /\ Public \in Seq(Range(Public)) \ {<<>>}

Clients == {"netup", "shell"}

VARIABLES
  doing,     \* of netup's client, and of the shell with its client
  iface,     \* the interface each is at work on
  offer,     \* the lease each has been given
  unwritten, \* name servers each still has to write
  addr,      \* addresses of each interface
  route,     \* the default route: router and interface, or Nothing
  resolv,    \* /etc/resolv.conf
  asked,     \* the interface "network test" was given, or Nothing
  saw,       \* what the test has found so far
  others,    \* history: clients of netup at work since the test began; 2: or more
  once,      \* history: was everything the test looks for there at one moment?
  lost,      \* history: interfaces whose last client got no lease, or no router
  bound,     \* history: name servers of the client that last began to write them
  files      \* the two logs

net == <<addr, route, resolv>>
test == <<asked, saw, others>>
leaseVars == <<doing, iface, offer, unwritten, net, test, once, lost, bound, files>>

AllOffers == UNION {Offers[i] : i \in Ifaces}
Ips == {o.ip : o \in AllOffers}
Routes == [via : {o.router : o \in AllOffers}, dev : Ifaces]
Servers == Range(Public) \cup UNION {Range(o.dns) : o \in AllOffers}

ASSUME NothingAssumption == Nothing \notin Routes

\* The leases of a network go together: with the address of any of them the
\* router of any other is reached.  Two servers that do not know of each other
\* break it.
OneNetwork ==
  \A i \in Ifaces : \A o, p \in Offers[i] :
    p.router # Nothing => \E q \in Offers[i] : q.ip = o.ip /\ q.router = p.router

Script == {"deconfig", "ask", "flush", "addr", "del_route", "add_route", "truncate", "dns"}
Test == {"ipv4", "route", "resolv", "ping", "wget"}

LeaseTypeOK ==
  /\ doing \in [Clients -> {"off"} \cup Script \cup Test]
  /\ iface \in [Clients -> Ifaces]
  /\ offer \in [Clients -> AllOffers \cup {Nothing}]
  /\ \A c \in Clients : Range(unwritten[c]) \subseteq Servers
  /\ addr \in [Ifaces -> SUBSET Ips]
  /\ route \in Routes \cup {Nothing}
  /\ Range(resolv) \subseteq Servers
  /\ asked \in Ifaces \cup {Nothing}
  /\ saw \subseteq Test
  /\ others \in 0 .. 2
  /\ once \in BOOLEAN
  /\ lost \subseteq Ifaces
  /\ Range(bound) \subseteq Servers
  /\ files \in [{"/tmp/netup.log", "/var/log/dew-network.log"} -> {"absent", "empty", "startup"}]

LeaseInit ==
  /\ doing = [c \in Clients |-> "off"]
  /\ iface \in [Clients -> Ifaces]
  /\ offer = [c \in Clients |-> Nothing]
  /\ unwritten = [c \in Clients |-> <<>>]
  /\ addr = [i \in Ifaces |-> {}]
  /\ route = Nothing
  /\ resolv = Public                   \* as the installer wrote it
  /\ asked = Nothing
  /\ saw = {}
  /\ others = 0
  /\ once = FALSE
  /\ lost = Ifaces
  /\ bound = Public
  /\ files = [f \in {"/tmp/netup.log", "/var/log/dew-network.log"} |-> "absent"]

Go(c, s) == doing' = [doing EXCEPT ![c] = s]

-----------------------------------------------------------------------------
(* A client.                                                               *)

\* What netup has to say goes to its own log; the one PID 1 gives it stays empty.
Logged(tmp) == [f \in DOMAIN files |-> IF f = "/tmp/netup.log" THEN tmp ELSE "startup"]

\* netup, run by PID 1's start_network_if_installed or by somebody, or
\* "network dhcp" in the shell.
StartClient(c) ==
  /\ doing[c] = "off"
  /\ Go(c, "deconfig")
  /\ \E i \in Ifaces : iface' = [iface EXCEPT ![c] = i]
  /\ saw' = IF c = "shell" THEN {} ELSE saw
  /\ others' = IF c = "netup" /\ others < 2 THEN others + 1 ELSE others
  /\ files' \in IF c = "netup" THEN {Logged("empty"), Logged(files["/tmp/netup.log"])} ELSE {files}
  /\ UNCHANGED <<offer, unwritten, net, asked, lost, bound>>

\* ip addr flush: with the last address the kernel drops the routes of the
\* interface.
Flush(c) ==
  /\ addr' = [addr EXCEPT ![iface[c]] = {}]
  /\ route' = IF route # Nothing /\ route.dev = iface[c] THEN Nothing ELSE route

Deconfig(c) ==
  /\ doing[c] = "deconfig"
  /\ Go(c, "ask")
  /\ Flush(c)
  /\ UNCHANGED <<iface, offer, unwritten, resolv, test, lost, bound, files>>

\* -n: no lease, no address.
NoLease(c) ==
  /\ doing[c] = "ask"
  /\ Go(c, "off")
  /\ lost' = lost \cup {iface[c]}
  /\ UNCHANGED <<iface, offer, unwritten, net, test, bound, files>>

Lease(c) ==
  /\ doing[c] = "ask"
  /\ Go(c, "flush")
  /\ \E o \in Offers[iface[c]] : offer' = [offer EXCEPT ![c] = o]
  /\ UNCHANGED <<iface, unwritten, net, test, lost, bound, files>>

Bound(c) ==
  /\ doing[c] = "flush"
  /\ Go(c, "addr")
  /\ Flush(c)
  /\ lost' = IF offer[c].router = Nothing THEN lost \cup {iface[c]} ELSE lost \ {iface[c]}
  /\ UNCHANGED <<iface, offer, unwritten, resolv, test, bound, files>>

AddAddress(c) ==
  /\ doing[c] = "addr"
  /\ Go(c, IF offer[c].router = Nothing THEN "truncate" ELSE "del_route")
  /\ addr' = [addr EXCEPT ![iface[c]] = @ \cup {offer[c].ip}]
  /\ UNCHANGED <<iface, offer, unwritten, route, resolv, test, lost, bound, files>>

\* Variant of DelRoute: the route is taken away after it was added.
DelRoute_After(c) ==
  /\ doing[c] = "del_route"
  /\ Go(c, "truncate")
  /\ route' = Nothing
  /\ UNCHANGED <<iface, offer, unwritten, addr, resolv, test, lost, bound, files>>

\* ip route del default, whichever interface it is on.
DelRoute(c) ==
  /\ doing[c] = "del_route"
  /\ Go(c, "add_route")
  /\ route' = Nothing
  /\ UNCHANGED <<iface, offer, unwritten, addr, resolv, test, lost, bound, files>>

\* The kernel refuses a second default route, and one over a router that no
\* address of the interface reaches.
AddRoute(c) ==
  /\ doing[c] = "add_route"
  /\ Go(c, "truncate")
  /\ route' = IF route = Nothing
                   /\ \E o \in Offers[iface[c]] : o.ip \in addr[iface[c]] /\ o.router = offer[c].router
              THEN [via |-> offer[c].router, dev |-> iface[c]]
              ELSE route
  /\ UNCHANGED <<iface, offer, unwritten, addr, resolv, test, lost, bound, files>>

ServersOf(c) == IF offer[c].dns = <<>> THEN Public ELSE offer[c].dns

Truncate(c) ==
  /\ doing[c] = "truncate"
  /\ Go(c, "dns")
  /\ resolv' = <<>>
  /\ unwritten' = [unwritten EXCEPT ![c] = ServersOf(c)]
  /\ bound' = ServersOf(c)
  /\ offer' = [offer EXCEPT ![c] = Nothing]
  /\ UNCHANGED <<iface, addr, route, test, lost, files>>

\* Variant of WriteDns: the file is written with > and not with >>.
WriteDns_Over(c) ==
  /\ doing[c] = "dns"
  /\ IF unwritten[c] = <<>>
     THEN Go(c, "off") /\ UNCHANGED <<unwritten, resolv>>
     ELSE /\ resolv' = <<Head(unwritten[c])>>
          /\ unwritten' = [unwritten EXCEPT ![c] = Tail(@)]
          /\ UNCHANGED doing
  /\ UNCHANGED <<iface, offer, addr, route, test, lost, bound, files>>

WriteDns(c) ==
  /\ doing[c] = "dns"
  /\ IF unwritten[c] = <<>>
     THEN Go(c, "off") /\ UNCHANGED <<unwritten, resolv>>
     ELSE /\ resolv' = Append(resolv, Head(unwritten[c]))
          /\ unwritten' = [unwritten EXCEPT ![c] = Tail(@)]
          /\ UNCHANGED doing
  /\ UNCHANGED <<iface, offer, addr, route, test, lost, bound, files>>

-----------------------------------------------------------------------------
(* run_network_test, one command or file after the other.                  *)

\* Variant of StartTest: what an earlier test found is kept.
StartTest_Keeps ==
  /\ doing["shell"] = "off"
  /\ Go("shell", "ipv4")
  /\ asked' \in Ifaces \cup {Nothing}
  /\ others' = IF doing["netup"] \in Script THEN 1 ELSE 0
  /\ UNCHANGED <<iface, offer, unwritten, net, saw, lost, bound, files>>

StartTest ==
  /\ doing["shell"] = "off"
  /\ Go("shell", "ipv4")
  /\ asked' \in Ifaces \cup {Nothing}
  /\ saw' = {}
  /\ others' = IF doing["netup"] \in Script THEN 1 ELSE 0
  /\ UNCHANGED <<iface, offer, unwritten, net, lost, bound, files>>

\* One finding, and on to the next.
Find(s, found, t) ==
  /\ doing["shell"] = s
  /\ Go("shell", t)
  /\ saw' = IF found THEN saw \cup {s} ELSE saw
  /\ UNCHANGED <<iface, offer, unwritten, net, asked, others, lost, bound, files>>

\* With no interface given every interface is looked at, the loopback one too,
\* which has an address of its own when somebody has brought it up.
has_ipv4 == \E lo \in BOOLEAN :
  Find("ipv4", IF asked = Nothing THEN lo \/ \E i \in Ifaces : addr[i] # {} ELSE addr[asked] # {},
       "route")
has_default_route == Find("route", route # Nothing, "resolv")
has_dns == Find("resolv", resolv # <<>>, "ping")

Reachable == route # Nothing /\ addr[route.dev] # {}

\* Both may also fail for reasons of their own.
Try ==
  \E luck \in BOOLEAN :
    \/ Find("ping", luck /\ Reachable, "wget")
    \/ Find("wget", luck /\ Reachable /\ resolv # <<>>, "off")

run_network_test == has_ipv4 \/ has_default_route \/ has_dns \/ Try

Ok == {"ipv4", "route", "resolv"} \subseteq saw /\ saw \cap {"ping", "wget"} # {}

-----------------------------------------------------------------------------
ScriptStep(c) ==
  \/ Deconfig(c) \/ NoLease(c) \/ Lease(c) \/ Bound(c) \/ AddAddress(c)
  \/ DelRoute(c) \/ AddRoute(c) \/ Truncate(c) \/ WriteDns(c)

\* What the test looks for, all of it; the loopback interface does not count.
Configured ==
  /\ \E i \in IF asked = Nothing THEN Ifaces ELSE {asked} : addr[i] # {}
  /\ route # Nothing
  /\ resolv # <<>>

\* The history begins anew with the first of the test's three readings.
Watch == once' = (Configured' \/ (once /\ doing'["shell"] # "ipv4"))

LeaseNext ==
  /\ StartTest \/ run_network_test \/ \E c \in Clients : StartClient(c) \/ ScriptStep(c)
  /\ Watch

LeaseSpec == LeaseInit /\ [][LeaseNext]_leaseVars

-----------------------------------------------------------------------------
(* Properties.                                                             *)

Quiet == \A c \in Clients : doing[c] \notin Script

\* However the two scripts interleave, on one interface or on two: when both
\* are done and the last client of every interface was given a lease with a
\* router, every interface has an address and there is a default route.
Converges == Quiet /\ lost = {} => Reachable /\ \A i \in Ifaces : addr[i] # {}

\* The name servers of the lease that was last to write them are all there.
ServersKept == Quiet => Range(bound) \subseteq Range(resolv) /\ bound # <<>>

\* The test reads address, route and name servers one after the other while a
\* script may be changing them.  When "Network result: ok" comes of it and no more
\* than one client was at work meanwhile, the three were there at one moment.
OkOfOneMoment == doing["shell"] = "off" /\ Ok /\ others < 2 => once

-----------------------------------------------------------------------------
(* What the code says, and does not hold.                                  *)

\* "Network result: ok", however many clients ran during the test: the interface
\* may have lost its address before another one got a route.
OkIsOfOneMoment == doing["shell"] = "off" /\ Ok => once

\* cmd_netlog, "Show network startup log": once netup has logged its start, this
\* is what the command prints.
netlog == files["/tmp/netup.log"]
NetlogShowsStartup == files["/var/log/dew-network.log"] = "startup" => netlog = "startup"
=============================================================================
