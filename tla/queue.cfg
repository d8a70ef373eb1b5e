SPECIFICATION Spec
CONSTANTS
    Queue = {messages_to_send, new_q, arp_entries}
    Element = {a, b}
    Cell = {c1, c2, c3}
    NULL = NULL
INVARIANTS TypeOK Linked Apart
PROPERTIES ImplementsFifo
