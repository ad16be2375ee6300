----------------------------- MODULE MCWebSocket -----------------------------
EXTENDS WebSocket

MCDatas == {<<>>, <<0, 1>>, <<1, 1, 0>>, <<1, 0, 1, 1>>}
MCMasks == {<<0, 1>>}
=============================================================================
