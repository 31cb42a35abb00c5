------------------------------ MODULE CasesUa1 ------------------------------
(***************************************************************************)
(* Chapter UA-1: data sources, from their creation to their deletion, and   *)
(* what becomes of them when the server behind them goes (ua1_runtime.py,   *)
(* ua1_precise.py).  Most bodies are straight: what they made is left to    *)
(* the runner's sweep.                                                      *)
(*                                                                         *)
(* The sources of this chapter are at "mock".  Its calls of mock_control do *)
(* not have the context: they stop the server that listens on "mock"'s      *)
(* port, but the one they start there is MockManager's own, "local", which  *)
(* has other nodes.                                                         *)
(***************************************************************************)
EXTENDS CaseSteps, TLC

LOCAL Run(steps, v) == Straight(steps \o <<Return(v)>>)
LOCAL Cases(c, steps, v) == c :> Run(steps, v)

\* create_datasource refuses an endpoint another source has.
CreateSource(x) == <<See("absent", {"ds", "ds2"}), Source(x)>>
\* wait_alive only answers; a case that does not look at it goes on regardless.
WaitAlive(S) == DoStep("tryfind", "active", S)
BeAlive(x) == <<WaitAlive({x, "mock"}), Accepted>>
Enabled(x) == <<Call("on", {x})>> \o BeAlive(x)
Disabled(x) == <<Call("off", {x}), See("dead", {x})>>
HasRow(x) == See("active", {x})              \* _wait_rt: any quality will do
Changing(x, src) == Sample({x, src, "mock"}) \* _wait_changed
\* Two reads without a wait between them need not differ, and the first value
\* after a reconnect need not be a good one yet.
LOCAL Unsettled(x) == Maybe(See("never", {x}))

Prepare(x, tag) ==
    <<Need({"mock"})>> \o CreateSource(x) \o Enabled(x) \o <<Born(tag), See("active", {tag})>>
PrepareSource(x) == <<Need({"mock"})>> \o CreateSource(x)

(***************************************************************************)
(* UA-1-1: connecting.                                                      *)
(***************************************************************************)
Connection ==
    Each({"UA-1-1-01", "UA-1-1-02"},
         Run(Prepare("ds", "f") \o <<See("active", {"ds", "mock"}), HasRow("f"), Look({"f"})>>, "PASS"))
 @@ Cases("UA-1-1-04", PrepareSource("ds") \o <<Call("on", {"ds"}), Look({"ds"})>>, "PASS")
 @@ Cases("UA-1-1-12", PrepareSource("ds") \o Enabled("ds") \o <<Try("source", {"void"}), Refused>>, "PASS")

Owned_ds(x) == <<Source(x), Call("on", {x}), WaitAlive({x, "mock"})>>
ConnectionCase ==
    LET Tagged(steps, v) ==
            Run(<<Need({"mock"})>> \o Owned_ds("ds") \o <<Born("f"), See("active", {"f"}), Read>> \o steps, v)
    IN  Cases("UA-1-1-03",
              <<Need({"mock"})>> \o Owned_ds("ds") \o Owned_ds("ds2")
              \o <<Born("f"), Born("g"), See("active", {"f"}), See("active", {"g"}),
                   See("active", {"ds", "ds2", "mock"})>>, "PASS")
     @@ Cases("UA-1-1-05",
              <<Need({"mock"}), Call("off", {"local"}), Source("ds"), Call("on", {"ds"}), Read,
                Maybe(Return("OBSERVED")), Try("on", {"local"}), IfRefused(Return("OBSERVED")),
                TryFind("local"), IfRefused(Return("OBSERVED")),
                WaitAlive({"ds", "local"}), IfRefused(Return("OBSERVED")),
                Born("f"), See("active", {"f"})>>, "PASS")
     @@ "UA-1-1-06" :> Tagged(<<Look({"ds"})>>, "PASS")
     @@ Each({"UA-1-1-07", "UA-1-1-08"}, Tagged(<<See("active", {"ds", "mock"})>>, "PASS"))
     @@ Each({"UA-1-1-09", "UA-1-1-10", "UA-1-1-11"}, Tagged(<<Read>>, "OBSERVED"))

(***************************************************************************)
(* UA-1-2: enabling and disabling.  check_eq is not imported, so that 03    *)
(* ends in a NameError.                                                     *)
(***************************************************************************)
State ==
    LET Do(steps, v) == Run(Prepare("ds", "f") \o <<HasRow("f"), Changing("f", "ds"), Look({"f"})>> \o steps, v)
        Down(steps, v) == Do(Disabled("ds") \o steps, v)
        Back == Enabled("ds") \o <<HasRow("f")>>
        \* An AssertFail while history is imported or verified is caught.
        History(steps, v) == Down(<<Read, TryFind("f"), IfRefused(Return("BLOCKED"))>> \o Disabled("ds") \o steps, v)
        Resumed(steps) == Down(Back \o <<Unsettled("f"), Look({"f"}), Changing("f", "ds")>> \o steps, "PASS")
    IN  Each({"UA-1-2-01", "UA-1-2-02"}, Down(<<Read, Read, Look({"f"})>>, "PASS"))
     @@ "UA-1-2-03" :> History(<<Look({"f"})>>, "ERROR")
     @@ Each({"UA-1-2-04", "UA-1-2-05"}, History(Back \o <<TryFind("f")>>, "OBSERVED"))
     @@ "UA-1-2-06" :> Do(Enabled("ds") \o <<Changing("f", "ds")>>, "PASS")
     @@ "UA-1-2-07" :> Down(Disabled("ds"), "PASS")
     @@ "UA-1-2-08" :> Resumed(Disabled("ds") \o Back \o <<Changing("f", "ds")>>)

(***************************************************************************)
(* UA-1-3: the server goes and another comes.  None has a finally.          *)
(***************************************************************************)
Stop == <<Call("off", {"mock", "local"})>>
Start == <<Call("on", {"local"}), See("active", {"local"})>>
DisconnectMetrics ==
    LET Do(c, steps, v) ==
            Cases(c, <<Need({"mock"})>> \o CreateSource("ds")
                     \o <<Call("on", {"ds"}), WaitAlive({"ds", "mock"}), Born("f"), Read, Read, Unsettled("f")>>
                     \o steps, v)
        Write == Try("write", {"f", "odd"})
        Down == <<See("dead", {"local"})>>
        Up == <<See("active", {"ds", "local"})>>
        Reconnected(x) == <<WaitAlive({"ds", "local"}), Changing(x, "ds")>>
    IN  Do("UA-1-3-01", Stop \o Down \o Down \o Start, "OBSERVED")
     @@ Do("UA-1-3-02", Stop \o Start \o Up \o <<Changing("f", "ds")>>, "OBSERVED")
     @@ Do("UA-1-3-03", Stop \o Down \o Start \o Up \o Stop \o Down \o Start \o Up, "OBSERVED")
     @@ Do("UA-1-3-04", Stop \o <<Write>> \o Start, "OBSERVED")
     @@ Do("UA-1-3-05", Stop \o <<Write>> \o Start \o <<Fetch("mock")>>, "OBSERVED")
     @@ Do("UA-1-3-06", Stop \o Start \o Reconnected("f"), "PASS")
     @@ Do("UA-1-3-07", Stop \o Start \o Reconnected("f"), "OBSERVED")
     @@ Do("UA-1-3-08", Stop \o <<Born("h")>> \o Start \o <<Changing("h", "ds")>>, "PASS")

(***************************************************************************)
(* UA-1-4: the two baseline sources.  The tags are given no node, so the    *)
(* first sample fails and nothing after it is reached.                      *)
(***************************************************************************)
DualDsIsolation ==
    LET Do(c, steps, v) ==
            c :> Body(<<Need({"mock"}), Read, See("listed", {"types", "empty"}), Born("loose"), Born("b")>>,
                      <<Sample({"loose"}), Sample({"b"})>> \o steps \o <<Return(v)>>,
                      <<Cleanup("loose"), Cleanup("b")>>)
        OffOn(between) == <<Call("off", {"types"})>> \o between \o <<Call("on", {"types"})>>
        Empty == See("active", {"empty"})
    IN  Do("UA-1-4-01", <<See("active", {"types"}), Empty>>, "PASS")
     @@ Do("UA-1-4-02", OffOn(<<Read>>) \o <<Empty>>, "OBSERVED")
     @@ Do("UA-1-4-03", OffOn(<<>>) \o <<Sample({"loose"}), Empty>>, "PASS")
     @@ Do("UA-1-4-04", OffOn(<<Read>>) \o <<Read, Empty>>, "OBSERVED")
     @@ Do("UA-1-4-05", <<Cleanup("loose"), Cleanup("b"), Born("a"), Born("c"), Call("write", {"a"}),
                          Call("write", {"c"}), Read, Look({"a", "c"}), Cleanup("a"), Cleanup("c")>>, "PASS")
     @@ Do("UA-1-4-06", <<Try("add", {"void"}), Refused>>, "PASS")

(***************************************************************************)
(* UA-1-5: deleting sources that are disabled, that still have tags, whose  *)
(* tags are in the recycle bin.                                             *)
(***************************************************************************)
Delete ==
    Cases("UA-1-5-01", PrepareSource("ds") \o <<RetireSource("ds"), See("absent", {"ds"})>>, "PASS")
 @@ Cases("UA-1-5-07",
          Prepare("ds", "f")
          \o <<Pop("f"), Call("purge", {"f"}), Call("off", {"ds"}), RetireSource("ds")>>
          \o Prepare("ds2", "g") \o <<See("active", {"ds2", "mock"}), HasRow("g")>>, "PASS")

DeleteMatrix ==
    LET Do(c, steps, v) == Cases(c, PrepareSource("ds") \o steps, v)
        Recycled == <<Born("f"), Call("soft", {"f"})>>
    IN  Do("UA-1-5-02", <<Call("off", {"ds"}), Born("f"), TryRetireSource("ds"), IfOk(Pop("f"))>>, "OBSERVED")
     @@ Do("UA-1-5-03", <<TryRetireSource("ds")>>, "OBSERVED")
     @@ Do("UA-1-5-04", <<Born("f"), See("active", {"f"}), Read, Try("drop", {"ds"}), Read>>, "OBSERVED")
     @@ Do("UA-1-5-05", Recycled \o <<Page, See("recycled", {"f"}), Try("off", {"ds"}),
                                      IfOk(TryRetireSource("ds")), Read>>, "OBSERVED")
     @@ Do("UA-1-5-06", Recycled \o <<Call("off", {"ds"}), TryRetireSource("ds")>> \o CreateSource("ds2") \o <<Read>>,
           "OBSERVED")
        \* The second source is at another server.  Neither is ever enabled.
     @@ Do("UA-1-5-08", <<Source("ds2"), Born("g"), See("active", {"g"}), RetireSource("ds"),
                          See("active", {"ds2"}), Read>>, "PASS")
     @@ Do("UA-1-5-09", <<Born("f"), See("active", {"f"}), Call("off", {"ds"}), Call("purge", {"f"}),
                          TryRetireSource("ds")>>, "OBSERVED")

(***************************************************************************)
(* UA-1-6: the test call of a source.  13 leaves it to the hub whether a    *)
(* write to a disabled source raises; 02 and 07 catch that.                 *)
(***************************************************************************)
TestDsInfo ==
    LET Do(c, steps, v) ==
            Cases(c, PrepareSource("ds") \o <<Call("on", {"ds"}), WaitAlive({"ds", "mock"})>> \o steps, v)
        Off == <<Call("off", {"ds"})>>
        Succeeds == See("active", {"ds", "mock"})
    IN  Do("UA-1-6-01", <<Succeeds>>, "PASS")
     @@ Do("UA-1-6-02", Off, "OBSERVED")
     @@ Do("UA-1-6-03", <<Read>>, "OBSERVED")
     @@ Do("UA-1-6-04", <<Read, Read, Succeeds>>, "PASS")
     @@ Do("UA-1-6-05", <<Born("a"), Sample({"a", "ds", "mock"}), Read, Read, Cleanup("a")>>, "OBSERVED")
     @@ Do("UA-1-6-06", <<Look({"ds"})>>, "PASS")
     @@ Do("UA-1-6-07", Off, "OBSERVED")
     @@ Do("UA-1-6-08", <<Born("a"), Read, Read, Cleanup("a")>>, "OBSERVED")
     @@ Do("UA-1-6-09", <<Look({"ds"})>>, "PASS")
     @@ Do("UA-1-6-10", <<Read, Read>>, "OBSERVED")
     @@ Do("UA-1-6-11", <<Read>>, "OBSERVED")
     @@ Do("UA-1-6-12", <<Look({"ds"})>>, "PASS")
     @@ Do("UA-1-6-13", Off \o <<Call("write", {"odd"})>>, "OBSERVED")

Ua1Cases ==
    Connection @@ ConnectionCase @@ State @@ DisconnectMetrics @@ DualDsIsolation
 @@ Delete @@ DeleteMatrix @@ TestDsInfo
=============================================================================
