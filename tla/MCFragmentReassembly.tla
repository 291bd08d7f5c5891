------------------------ MODULE MCFragmentReassembly ------------------------
(***************************************************************************)
(* The flight of the server: messages of three, two and no fragments.        *)
(***************************************************************************)
EXTENDS FragmentReassembly

Msg(type, seq, len) == [msg_type |-> type, message_seq |-> seq,
                        total_length |-> len, fragment_offset |-> 0,
                        length |-> len, body |-> type]

MCMessages == {Msg("server_hello", 1, 6), Msg("server_key_exchange", 2, 3),
               Msg("server_hello_done", 3, 0)}
=============================================================================
