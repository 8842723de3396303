---------------------------- MODULE MCChatRequest ----------------------------
(* The instance of ChatRequest for TLC. *)
EXTENDS ChatRequest

\* A chat on every route, streamed or not; tool calls, streamed or not; bodies
\* that are no requests; requests with one and with two defects.
Chat(r, s) ==
  [body |-> "object", defects |-> {}, tool |-> FALSE, stream |-> s, route |-> r,
   model |-> "default"]

MCRequests ==
  {Chat(r, s) : r \in Routes, s \in BOOLEAN}
    \cup {[Chat(r, FALSE) EXCEPT !.model = m] :
             r \in {"reasoning", "heavy"}, m \in {"named", "odd"}}
    \cup {[Chat("auto", s) EXCEPT !.tool = TRUE] : s \in BOOLEAN}
    \cup {[Chat("auto", FALSE) EXCEPT !.body = b] : b \in Bodies}
    \cup {[Chat("heavy", FALSE) EXCEPT !.defects = D] :
            D \in {{d} : d \in DefectTypes}
                    \cup {{"invalid_route", "invalid_model"},
                          {"invalid_role", "unsupported_content"}}}

\* All settings sound but one, which is anything else.
Sound == [s \in Settings |-> "sound"]

MCConfigs ==
  {[enabled |-> e, value |-> Sound] : e \in SUBSET {"reasoning", "heavy"}}
    \cup {[enabled |-> e, value |-> [Sound EXCEPT ![s] = v]] :
             e \in SUBSET {"reasoning", "heavy"}, s \in Settings, v \in Values}

\* One status of every class that _classify_provider_error_type tells apart, and
\* one that is no error at all to the client.
MCStatuses == {304, 400, 401, 408, 429, 500, 504}

\* No type, a type of the provider's own, one of every kind the router knows.
MCPayloads ==
  {[type |-> t, text |-> x] :
     t \in {"none", "rate_limit_error", "model_unavailable", "timeout",
            "upstream_non_json", "invalid_messages"}, x \in BOOLEAN}

MCUnavailable == {"model_unavailable"}
==============================================================================
