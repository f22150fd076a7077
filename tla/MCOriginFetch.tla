----------------------------- MODULE MCOriginFetch -----------------------------
(***************************************************************************)
(* The origins for TLC: one of every kind beside Kraken.                   *)
(***************************************************************************)
EXTENDS OriginFetch

MCContracts == {<<"ETH", "USD">>, <<"IBTA", "USD">>}
MCRefs == {<<"ETH", "USD">>}
MCRefInverse == {<<"IBTA", "USD">>}
MCSameSymbol == <<"ETHU", "SD">> :> <<"ETH", "USD">>
MCOrder == << <<"ETH", "USD">>, <<"ETH", "USDT">>, <<"ETHU", "SD">>, <<"IBTA", "USD">>,
              <<"USD", "ETH">> >>
MCKinds == [h \in {1, 2} |-> IF h = 1 THEN Kinds ELSE {"kraken"}]
MCPost == [h \in {1, 2} |-> IF h = 1 THEN PostOrigins ELSE {"kraken"}]
MCWanted ==
    [h \in {1, 2} |->
        IF h = 1 THEN {<<<<"ETH", "USD">>, <<"WETH", "USD">>>>, <<<<"USD", "ETH">>, <<"ETH", "USD">>>>,
                       <<<<"ETHU", "SD">>, <<"ETH", "USDT">>>>, <<<<"IBTA", "USD">>>>}
        ELSE {<<<<"ETH", "USD">>>>}]
MCAliases == [a \in {"WETH"} |-> "ETH"]
================================================================================
