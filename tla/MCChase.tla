------------------------------ MODULE MCChase -------------------------------
(***************************************************************************)
(* Chase over five names with room for four lookups.  A reply is an error, *)
(* up to two addresses, nothing, or up to two CNAMEs of the name asked     *)
(* (targets may repeat or lead back), or a CNAME of another name.          *)
(***************************************************************************)
EXTENDS Chase

CONSTANTS n1, n2, n3, n4, n5, a1, a2, soa

MCName == {n1, n2, n3, n4, n5}

MCMessage(rcode, rrs, cnames, s) ==
  [tc |-> FALSE, rcode |-> rcode, rrs |-> rrs, cnames |-> cnames, soa |-> s]

A(ip, ttl) == [ip |-> ip, ttl |-> ttl]

CNAME(own, t) == [own |-> own, target |-> t]

MCRecords == { <<A(a1, 2), A(a2, 1)>>, <<A(a1, 0), A(a2, 1)>>, <<A(a1, 1), A(a1, 1)>> }

MCChains ==
  { <<CNAME(TRUE, t)>> : t \in {n1, n4, n5} }
  \cup { <<CNAME(TRUE, t), CNAME(TRUE, u)>> : <<t, u>> \in {<<n2, n3>>, <<n3, n4>>, <<n2, n2>>} }
  \cup { <<CNAME(TRUE, n2), CNAME(FALSE, n3)>>, <<CNAME(FALSE, n3)>> }

MCReply ==
  { MCMessage("success", rrs, <<>>, NoSOA) : rrs \in MCRecords }
  \cup { MCMessage("success", <<>>, cn, NoSOA) : cn \in MCChains }
  \cup { MCMessage("success", <<A(a1, 1)>>, <<CNAME(TRUE, n2)>>, NoSOA),
         MCMessage("success", <<>>, <<>>, soa), MCMessage("nxdomain", <<>>, <<>>, soa),
         MCMessage("nxdomain", <<>>, <<>>, NoSOA), MCMessage("other", <<>>, <<>>, NoSOA) }
  \cup {[MCMessage("success", <<>>, <<>>, NoSOA) EXCEPT !.tc = TRUE]}
=============================================================================
