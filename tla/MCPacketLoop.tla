---------------------------- MODULE MCPacketLoop -----------------------------
(* Instances of PacketLoop for TLC.                                        *)
EXTENDS PacketLoop, TLC

(* Hellos with the name in the first segment, in the second, and in the    *)
(* first but for its last byte; requests with the User-Agent after and     *)
(* before the Host.                                                        *)
Hello     == <<"16", "03", "01", "r", "r", "r", "r", "r", "r", "r", "r", "r",
               "r", "sni", "h", "h", "h", "r">>
LongHello == <<"16", "03", "01", "r", "r", "r", "r", "r", "r", "r", "r", "r",
               "r", "r", "r", "r", "r", "r", "r", "r", "r", "sni", "h", "h",
               "h", "r">>
TornHello == <<"16", "03", "01", "r", "r", "r", "r", "r", "r", "r", "r", "r",
               "r", "r", "r", "r", "r", "sni", "h", "h", "h", "r">>
AgentLast  == <<"G", "E", "T", "space", "/", "p", "q", "eol", "Host", "space", "h", "h",
                "h", "eol", "Agent", "space", "u", "u", "u", "eol">>
AgentFirst == <<"G", "E", "T", "space", "/", "eol", "Agent", "space", "u", "u", "u",
                "eol", "Host", "space", "h", "h", "h", "eol">>

Tokens == {"16", "03", "01", "r", "sni", "h", "H", "u", "G", "E", "T", "/", "p",
           "q", "space", "eol", "Host", "hoSt", "Agent"}

Requests ==
    {[https |-> TRUE, bytes |-> b] : b \in {Hello, LongHello, TornHello}}
    \cup {[https |-> FALSE, bytes |-> b] : b \in {AgentLast, AgentFirst}}

Names     == {<<"www", "blocked">>, <<"game", "org">>}
Blocked   == {<<"blocked">>}
Allowed   == {<<"game", "org">>}
GameNames == {<<"game">>}

(* Settings of the command line that no mode of the interface has.         *)
Extra ==
    {[Native EXCEPT !.do_fragment_by_sni = TRUE, !.do_fake_packet = FALSE,
                    !.do_host = TRUE, !.do_host_mixedcase = TRUE,
                    !.do_host_removespace = TRUE, !.do_additional_space = TRUE,
                    !.active_filter_mode = 2],
     [Native EXCEPT !.do_fragment_by_sni = TRUE, !.do_fake_packet = FALSE,
                    !.do_host = TRUE, !.do_host_mixedcase = TRUE,
                    !.active_filter_mode = 3]}

(* The modes that work by windows or by edits under every filter mode, and *)
(* those that fragment natively, by fakes with a wrong sequence number or  *)
(* with a TTL, under the plain ones.                                       *)
Configs ==
    {Hayalet_RunConfig(mode, f, TRUE) : mode \in {-1, -4}, f \in 0..3}
    \cup {Hayalet_RunConfig(-6, 0, TRUE), Hayalet_RunConfig(-5, 1, TRUE)}
    \cup Extra

(* All but the torn hello are requests whose name can be cut off.          *)
ASSUME NamesAreCutOff ==
    \A r \in Request, c \in Config :
        r.bytes # TornHello => NameIsCutOff(r, c)

Sizes == {2, 18, 20}
=============================================================================
