------------------------------ MODULE MCNetlink ------------------------------
EXTENDS Netlink

CONSTANTS a1, a2

Asks(type, id, prefix) ==
  [type |-> type, id |-> id, prefix |-> prefix, strategy |-> DOMAIN_LOCAL, opt |-> <<>>, data |-> <<>>]
Data(id, strategy, opt, data) ==
  [type |-> PUBLISH_DATA, id |-> id, prefix |-> <<>>, strategy |-> strategy, opt |-> opt, data |-> data]
Leave == [type |-> DISCONNECT]

D(n) == Data(<<1, 2>>, DOMAIN_LOCAL, <<>>, <<n>>)
Setup(m, first, second) ==
  [mode |-> m, script |-> [a \in App |-> IF a = a1 THEN first ELSE second]]

MCSetups ==
  { \* an application that publishes without reading, and one that leaves
    Setup("user", <<D(5), D(6), D(7), D(8)>>, <<Asks(SUBSCRIBE_SCOPE, <<1>>, <<>>), Leave>>),
    Setup("kernel", <<D(5), D(6)>>, <<Asks(SUBSCRIBE_SCOPE, <<1>>, <<>>), Leave>>),
    \* all kinds of requests, some of them rejected
    Setup("user", <<Asks(PUBLISH_SCOPE, <<1>>, <<>>), Asks(PUBLISH_INFO, <<1, 2>>, <<3>>),
                    Data(<<1, 2>>, IMPLICIT_RENDEZVOUS, <<77>>, <<5, 6>>)>>,
                  <<Asks(SUBSCRIBE_INFO, <<2>>, <<1, 3>>), Asks(SUBSCRIBE_INFO, <<2, Cut>>, <<1>>),
                    Asks(UNSUBSCRIBE_SCOPE, <<1, 2>>, <<>>), Leave,
                    Asks(UNSUBSCRIBE_INFO, <<2>>, <<1>>)>>),
    Setup("user", <<Asks(UNPUBLISH_INFO, <<2>>, <<1>>), D(5)>>,
                  <<Data(<<4>>, LINK_LOCAL, <<77>>, <<>>), Asks(UNPUBLISH_SCOPE, <<1>>, <<>>)>>) }
=============================================================================
