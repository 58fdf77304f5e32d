---------------------------- MODULE MCHttpData ----------------------------
(* Instances of HttpData for model checking.                              *)
EXTENDS HttpData

Host == [key |-> "Host", value |-> "h"]
KeepAlive == [key |-> "Connection", value |-> "keep-alive"]
KeepAliveToo == [key |-> "Connection", value |-> "Keep-Alive"]
Close == [key |-> "Connection", value |-> "close"]
ContentLength == [key |-> "Content-length", value |-> "2"]

Req(method, path, version, headers, body) ==
  [method |-> method, path |-> path, version |-> version, headers |-> headers,
   body |-> body]

MCWord == {"Host", "h", "Connection", "keep-alive", "Content-length", "2", "a", "q",
           "hello", "missing", "b", "1.0", "1.1", "2.0", "Keep-Alive", "close"}

\* Well-formed requests of every kind the code tells apart.  The last one has
\* no header line: parseHeaders never finds its end.
MCRequest ==
  { Req("GET", <<"a", "?", "q">>, "1.1", <<Host, KeepAlive>>, <<>>),
    Req("GET", <<"hello">>, "1.1", <<Host>>, <<>>),
    Req("GET", <<"missing">>, "1.1", <<KeepAlive>>, <<>>),
    Req("GET", <<"a">>, "1.1", <<KeepAlive, Close>>, <<>>),
    Req("GET", <<"a">>, "2.0", <<Host>>, <<>>),
    Req("HEAD", <<>>, "1.0", <<Host, KeepAliveToo>>, <<>>),
    Req("POST", <<"a">>, "1.1", <<ContentLength>>, <<"b", "b">>),
    Req("GET", <<"a">>, "1.0", <<>>, <<>>) }

\* One request that nothing is wrong with.
MCPlainRequest == { Req("GET", <<"a">>, "1.1", <<Host>>, <<>>) }

MCMissing == { <<"missing">> }
MCUnmappable == { <<"empty">> }
=============================================================================
