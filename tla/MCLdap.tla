-------------------------------- MODULE MCLdap --------------------------------
(***************************************************************************)
(* A finite instance of LdapService.  Which name is bound does not matter, *)
(* so there is one name, whose account may be disabled: then its simple    *)
(* bind fails.  Anonymous binds end as empty SASL ones do.                 *)
(***************************************************************************)
EXTENDS LdapService

CONSTANT u

MCAsked ==
    {[op |-> "unbind"], [op |-> "write", wellFormed |-> TRUE]}
        \cup [op : {"bind"}, how : {"empty"}] \cup [op : {"bind"}, how : {"external"}, who : {u}]
        \cup [op : {"bind"}, how : {"simple"}, who : {u}, right : {TRUE}]
        \cup [op : {"bind"}, how : {"sasl"}, who : {u}, right : {FALSE}]
===============================================================================
