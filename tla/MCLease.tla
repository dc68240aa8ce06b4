------------------------------ MODULE MCLease ------------------------------
(* Two interfaces in two networks.  In the first network the server may     *)
(* leave the router and the name servers out; if Many, there is a          *)
(* second server in it.                                                     *)
EXTENDS Lease

CONSTANTS eth0, wlan0, Many

MCOffers == [i \in {eth0, wlan0} |->
  IF i = eth0
  THEN {[ip |-> "10.0.0.2", router |-> "10.0.0.1", dns |-> <<"10.0.0.1", "10.0.0.3">>]}
       \cup IF Many
            THEN {[ip |-> "172.16.0.2", router |-> "172.16.0.1", dns |-> <<"172.16.0.1">>]}
            ELSE {[ip |-> "10.0.0.2", router |-> Nothing, dns |-> <<>>]}
  ELSE {[ip |-> "192.168.1.2", router |-> "192.168.1.1", dns |-> <<"192.168.1.1">>]}]
MCPublic == <<"1.1.1.1", "8.8.8.8">>

ASSUME ManyAssumption == Many \/ OneNetwork
=============================================================================
