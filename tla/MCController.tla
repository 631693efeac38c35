----------------------------- MODULE MCController -----------------------------
(***************************************************************************)
(* Small instances of Controller.                                          *)
(***************************************************************************)
EXTENDS Controller

Name(namespace, name) == [namespace |-> namespace, name |-> name]

OnePolicy == {Name(<<"a">>, <<"web">>)}

(* Policy web-api of namespace a, and policy api of namespace a-web.       *)
OneKey == {Name(<<"a">>, <<"web", "api">>), Name(<<"a", "web">>, <<"api">>)}

(* One DataSource per namespace.                                           *)
SourceOf(p) == Name(p.namespace, <<"prometheus">>)
OneSource == {SourceOf(p) : p \in OnePolicy}
OneKeySources == {SourceOf(p) : p \in OneKey}

MkSpec(source, valid, workload, scaling, leadTime) ==
  [source |-> source, valid |-> valid, workload |-> workload, scaling |-> scaling,
   leadTime |-> leadTime]

OneKeySpecs == {MkSpec(s, TRUE, 1, 1, 1) : s \in OneKeySources}
GoodOrInvalid == {MkSpec(s, valid, 1, 1, 1) : s \in OneSource, valid \in BOOLEAN}

(* The second version differs in everything but the data source.           *)
TwoVersions == {MkSpec(s, TRUE, v, v, v) : s \in OneSource, v \in 1..2}
===============================================================================
