------------------------------ MODULE MCWorker ------------------------------
EXTENDS WorkerLoop

CONSTANTS path, other, good, bad, word, curse, address

\* One monitor of each kind that does something of its own.
WebPage == [kind |-> "http", timed |-> TRUE, header |-> "contains",
            contains |-> {word}, lacks |-> {curse}, exists |-> {}, equals |-> {}, differs |-> {}]
WebApi  == [kind |-> "http", timed |-> FALSE, header |-> "none", contains |-> {}, lacks |-> {},
            exists |-> {path}, equals |-> {<<path, good>>}, differs |-> {<<other, bad>>}]
Certificate == [kind |-> "ssl", https |-> TRUE, warning |-> 2]
Name        == [kind |-> "dns", supported |-> TRUE, nameserver |-> "default", expected |-> {address}]
Port        == [kind |-> "tcp"]
Job         == [kind |-> "heartbeat", interval |-> 1, grace |-> 1]

MCMonitors == {WebPage, WebApi, Certificate, Name, Port, Job}

\* By default a check has one attempt and there are no delays.  Two monitors
\* override both and one of them the timeout too, two only the attempts.
NoDelay   == <<>>
NoneSet   == [timeout |-> 0, max_attempts |-> 0, retry_delays |-> <<>>]
OneRetry  == [NoneSet EXCEPT !.max_attempts = 2]

MCOverride == [m \in MCMonitors |->
    CASE m = WebPage              -> [OneRetry EXCEPT !.retry_delays = <<3>>]
      [] m = Certificate          -> [OneRetry EXCEPT !.retry_delays = <<1>>, !.timeout = 1]
      [] m \in {Name, Port}       -> OneRetry
      [] OTHER                    -> NoneSet]

Response == [names |-> "public", sent |-> "ok", status |-> "expected", slow |-> FALSE,
             header |-> "exact", read |-> TRUE, head |-> {word}, tail |-> {}, json |-> {}]

PageObservations == {
    Response,
    [Response EXCEPT !.sent = "late"],
    [Response EXCEPT !.names = "unresolved"],
    [Response EXCEPT !.header = "missing"],
    [Response EXCEPT !.head = {}, !.tail = {word}],
    [Response EXCEPT !.tail = {curse}]}

ApiObservations == {
    [Response EXCEPT !.json = json, !.tail = tail] :
        json \in {{}, {<<path, good>>}, {<<path, good>>, <<other, good>>}, {<<path, good>>, <<other, bad>>}},
        tail \in {{}, {curse}}}

CertificateObservations == {
    [names |-> "public", left |-> left, inspect |-> <<"ok">>, validate |-> validate] :
        left \in {-1, 3, 5, 6},
        validate \in {<<"ok">>, <<"connect_error", "ok">>, <<"timeout", "ok">>}}

NameObservations == {[answered |-> a, records |-> r] : a \in BOOLEAN, r \in {{}, {address}}}
PortObservations == {[names |-> "public", sent |-> s] : s \in {"ok", "unreachable"}}
JobObservations  == {[age |-> age] : age \in {2, 3}}

MCMayObserve ==
    ({WebPage} \X PageObservations) \cup ({WebApi} \X ApiObservations)
    \cup ({Certificate} \X CertificateObservations) \cup ({Name} \X NameObservations)
    \cup ({Port} \X PortObservations) \cup ({Job} \X JobObservations)

MCObservations == {pair[2] : pair \in MCMayObserve}
=============================================================================
