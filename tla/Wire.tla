-------------------------------- MODULE Wire --------------------------------
(***************************************************************************)
(* The lengths of the wire format, in bytes: what the header of a frame    *)
(* says, what the encoders write, what they allocated for it.  A frame is  *)
(* known by its kind and the lengths of its two strings; what the strings  *)
(* say is left out.  All of it is the same on both sides, except           *)
(* SIZE_HEADER.                                                            *)
(***************************************************************************)
EXTENDS Integers

\* uint16_t: user_len, password_len, to_user_len, message_len, header.len.
U16(n) == n % 65536

Short == {n \in Nat : n <= 65535}

\* magic, len, message_type: what encode_header() writes and decode_header()
\* takes; SIZE_HEADER of the client.
HeaderBytes == 12


\* Faulty variant: a header and both length fields and then some.
SIZE_HEADER_Padded == 24

\* sizeof(message_header_t), with its padding: SIZE_HEADER of the server.
SIZE_HEADER == 16

\* A login: a and b are the lengths of name and password; a chat: of the name
\* of the addressee and of the message, with its final NUL.
Frames(kinds) == [kind : kinds, a : Short, b : Short]

\* The bytes that encode_auth_msg() and encodeMessage_send() write.
Bytes(f) == HeaderBytes + 2 + f.a + 2 + f.b

\* Faulty variant: the twelve bytes on the wire instead of the struct's size.
HeaderLen_Encoded(f) == U16(HeaderBytes + f.a + f.b)

\* Faulty variant: wider than the field.
HeaderLen_Wide(f) == SIZE_HEADER + f.a + f.b

\* header.len: the struct's padding stands in for the two length fields.
HeaderLen(f) == U16(SIZE_HEADER + f.a + f.b)

\* Faulty variant: without the two length fields.
Allocated_Encoded(f) == HeaderLen_Encoded(f)

\* What createMessage() and the login of client.c malloc() for the frame.
Allocated(f) == IF f.kind = "auth" THEN 48 ELSE HeaderLen(f)

\* updateBuff(): the name of the sender, u bytes, takes the addressee's place.
Rewritten(f, u) == [kind |-> "chat", a |-> u, b |-> f.b]

\* "200" and "401": SendMessage() counts 12 and the text.
InfoBytes == HeaderBytes + 3

\* The length of the frame fits its field.
Fits16(f) == SIZE_HEADER + f.a + f.b <= 65535
=============================================================================
