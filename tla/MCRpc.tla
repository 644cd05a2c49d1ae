------------------------------- MODULE MCRpc -------------------------------
(* The parameters and the foreign messages Rpc is checked on. *)
EXTENDS Rpc

MCParams == {Array(<<Num(7), Str(<<120>>)>>), Array(<< >>), Map(<<<<Str(<<107>>), Null>>>>)}

Whole(v) == [message |-> v, cut |-> 0]

Json(members) == Map(<<<<Name("jsonrpc"), Version>>>> \o members)
JsonCall(method, id) ==
    Json(<<<<Name("method"), Str(method)>>, <<Name("params"), Null>>, <<Name("id"), id>>>>)
JsonNote(method) == Json(<<<<Name("method"), Str(method)>>, <<Name("params"), Null>>>>)

JsonRaw ==
    {[message |-> JsonCall(Echo, Num(1)), cut |-> 1]}
    \cup {Whole(v) : v \in {
        Array(<<JsonCall(Echo, Num(8)), JsonNote(Quiet), JsonCall(Missing, Str(<<122>>)), JsonNote(Fail)>>),
        Array(<<JsonNote(Echo), JsonNote(Quiet)>>),
        Array(<<JsonCall(Fail, Num(3)), Json(<<<<Name("id"), Num(4)>>>>), JsonCall(Sys, Num(5))>>),
        Array(<<JsonCall(Echo, Num(1)), Num(2), JsonCall(Echo, Num(3))>>),
        Array(<< >>), Num(3), JsonNote(Missing)}}

Multi(method, params) == Map(<<<<Name("methodName"), Str(method)>>, <<Name("params"), params>>>>)

XmlRaw ==
    {[message |-> Array(<<Array(<< >>)>>), cut |-> 1]}
    \cup {Whole(Array(<<Array(v)>>)) : v \in {
        <<Multi(Echo, Array(<<Num(1)>>)), Multi(Missing, Array(<< >>)), Multi(Quiet, Array(<< >>))>>,
        <<Multi(Fail, Null), Num(1), Multi(Echo, Num(2)), Map(<< >>)>>,
        << >>}}

MPackRaw ==
    {[message |-> Array(<<Num(0), Num(1), Str(Echo), Num(300)>>), cut |-> 1]}
    \cup {Whole(v) : v \in {
        Num(3), Array(<<Num(1)>>), Array(<<Num(0), Null, Str(Echo), Null>>),
        Array(<<Num(0), Num(1), Num(2), Null>>), Array(<<Num(2), Num(1), Null>>),
        Array(<<Str(Echo), Num(1), Str(Echo), Null>>), Array(<<Null, Str(Echo), Null>>)}}

MCRaw == [f \in {"json", "xml", "mpack"} |->
            CASE f = "json" -> JsonRaw [] f = "xml" -> XmlRaw [] f = "mpack" -> MPackRaw]
=============================================================================
