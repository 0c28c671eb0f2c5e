------------------------------ MODULE MCDnsRedir -----------------------------
(* The instances of DnsRedir that TLC checks: two clients, of which one    *)
(* speaks IPv6 and one may be an allowed process, and two servers, one of  *)
(* them the resolver itself.                                               *)
EXTENDS DnsRedir
=============================================================================
