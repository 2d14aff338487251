-------------------------- MODULE MCTunnelProtocol --------------------------
(* TunnelProtocol for TLC: two pixel formats and an invalid one, clients     *)
(* that support a lot, little, and something unknown.                        *)
EXTENDS TunnelProtocol

MCFormat(bits, big) == [bits |-> bits, big |-> big, swapped |-> FALSE]
MCFormats == {MCFormat(16, FALSE), MCFormat(32, FALSE), MCFormat(15, FALSE)}
MCBothFormats == MCFormats \cup {MCFormat(32, TRUE)}
MCNative == <<MCFormat(32, FALSE), MCFormat(16, FALSE)>>
MCLists == {<<"CopyRect", "Tight", "DesktopName", "LastRect">>,
            <<"ZRLE", "Tight", "LastRect">>,
            <<"CopyRect">>,
            <<"Raw">>,
            <<"Tight">>}
=============================================================================
