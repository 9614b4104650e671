\* A descriptor given out again: the callbacks get out of order.
CONSTANTS
    NConns = 2
    Fds = {1}
    Senders = {s1}
    Acceptor = acceptor
    MaxSends = 2
    SendCap = 1
    QueueCap = 10
SPECIFICATION Spec
PROPERTY CallbackOrder
