--------------------------- MODULE ErrorClassification ---------------------------
(***************************************************************************)
(* What a bridge makes of an error of Rig (normalize_completion_error and  *)
(* classify_http_error, crates/armillae-llm-rig/src/response.rs).          *)
(*                                                                         *)
(* An error is [variant, status, http, chain]: the variant of              *)
(* CompletionError, the status of a provider response, the variant of an   *)
(* HTTP error, and for http = "Instance" the chain of its causes, outermost *)
(* first.  A cause is [layer, kind, status, timeout, os].                   *)
(***************************************************************************)
EXTENDS CompletionEvents, SequencesExt

ChainLimit == 16

ClassifiedIo ==
  {"ConnectionRefused", "ConnectionReset", "ConnectionAborted", "NotConnected",
   "HostUnreachable", "NetworkUnreachable", "PermissionDenied", "BrokenPipe",
   "UnexpectedEof"}

Unread == [status |-> Nil, kind |-> "Unknown", io |-> Nil, timedOut |-> FALSE, os |-> Nil]

Read(facts, cause) ==
  CASE cause.layer = "reqwest" ->
         [facts EXCEPT !.status = Or(@, cause.status), !.kind = cause.kind,
                       !.timedOut = @ \/ cause.timeout]
    [] cause.layer = "io" ->
         [facts EXCEPT !.os = Or(@, cause.os),
                       !.io = IF cause.kind \in ClassifiedIo THEN cause.kind ELSE @,
                       !.timedOut = @ \/ cause.kind = "TimedOut"]
    [] OTHER -> facts

\* Defect: only what is wrapped directly is looked at.
ReadTop(chain) == IF chain = <<>> THEN Unread ELSE Read(Unread, chain[1])

\* A chain may be cyclic: no more than ChainLimit causes are read.
ReadChain(chain) ==
  FoldLeft(Read, Unread,
           SubSeq(chain, 1, IF Len(chain) < ChainLimit THEN Len(chain) ELSE ChainLimit))

KindRead(facts) == IF facts.timedOut THEN "Timeout" ELSE Or(facts.io, facts.kind)

\* classify_http_error: the status, the transport kind and the OS error.
Classified(error) ==
  LET facts == ReadChain(error.chain)
      known == [status |-> error.status, transport |-> Nil, os |-> Nil]
  IN  CASE error.http = "InvalidStatusCode" -> known
        [] error.http = "Instance" ->
             LET status == Or(error.status, facts.status)
             IN  [status |-> status, os |-> facts.os,
                  transport |-> IF status = Nil \/ KindRead(facts) # "Unknown"
                                THEN KindRead(facts) ELSE Nil]
        [] error.http = "StreamEnded" -> [known EXCEPT !.transport = "UnexpectedEof"]
        [] error.http = "InvalidContentType" -> [known EXCEPT !.transport = "Decode"]
        [] OTHER -> [known EXCEPT !.transport = "Protocol"]

Metadata(error) ==
  IF error.variant = "HttpError" THEN Classified(error)
  ELSE [status |-> error.status, transport |-> Nil, os |-> Nil]

StatusCategory(status) ==
  CASE status = 401 -> "Authentication"
    [] status = 403 -> "PermissionDenied"
    [] status \in {408, 504} -> "Timeout"
    [] status = 429 -> "RateLimited"
    [] status \in 500..599 \ {504} -> "Transport"
    [] OTHER -> "ProviderRejected"

VariantCategory(variant, transport) ==
  CASE variant \in {"ResponseError", "JsonError"} -> "InvalidProviderResponse"
    [] variant = "UrlError" -> "InvalidConfiguration"
    [] variant = "RequestError" -> "InvalidRequest"
    [] variant = "HttpError" -> IF transport = "Timeout" THEN "Timeout" ELSE "Transport"
    [] OTHER -> "ProviderRejected"

\* normalize_completion_error.
NormalizeError(error) ==
  LET facts == Metadata(error)
  IN  [category |-> IF facts.status # Nil THEN StatusCategory(facts.status)
                    ELSE VariantCategory(error.variant, facts.transport),
       status |-> facts.status, transport |-> facts.transport, os |-> facts.os]
=============================================================================
