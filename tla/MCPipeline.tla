----------------------------- MODULE MCPipeline -----------------------------
(***************************************************************************)
(* Instances of Pipeline for TLC.                                          *)
(***************************************************************************)
EXTENDS Pipeline

Statuses == {"Unset", "Error"}
Kinds == {"Server", "Client"}

\* What the catalog filters on, and a filter that looks for a kind among the statuses.
RightAndWrong == {[StatusCode |-> {"Error"}, SpanKind |-> Kinds],
                  [StatusCode |-> {"Client"}, SpanKind |-> {}]}

Healthy == [age |-> "new", versions |-> 2, urls |-> "complete", regressed |-> FALSE,
            emitted |-> [StatusCode |-> {"Unset"}, SpanKind |-> Kinds]]
Empty == [Healthy EXCEPT !.age = "null", !.versions = 0, !.urls = "none",
                         !.emitted = [StatusCode |-> {}, SpanKind |-> {}]]

\* A regression among spans of a kind nobody knows, which the gate does not look at; the
\* lull after it; and data with one thing each that the gate should not accept.
SomeTelemetry ==
    {[Healthy EXCEPT !.regressed = TRUE, !.emitted["SpanKind"] = Kinds \cup {"SPAN_KIND_CLIENT"}],
     [Healthy EXCEPT !.age = "aging", !.emitted["StatusCode"] = Statuses],
     [Healthy EXCEPT !.age = "old", !.versions = 0, !.urls = "none"],
     [Healthy EXCEPT !.versions = 1, !.urls = "none"],
     [Healthy EXCEPT !.urls = "gaps"],
     [Healthy EXCEPT !.emitted["StatusCode"] = {"Unset", "ERROR"}],
     Empty}
=============================================================================
