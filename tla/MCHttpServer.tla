---------------------------- MODULE MCHttpServer ----------------------------
EXTENDS HttpServer

Get == [method |-> "GET", version |-> "1.1", path |-> "p", body |-> 0, close |-> FALSE]
MCKinds == {Get, [Get EXCEPT !.path = "q", !.body = 1, !.close = TRUE],
            [Get EXCEPT !.method = "INVALID"], [Get EXCEPT !.version = "INVALID"]}
MCGlobs == {{"p"}, {"q"}}
=============================================================================
