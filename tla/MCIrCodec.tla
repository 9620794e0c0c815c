------------------------------ MODULE MCIrCodec -----------------------------
EXTENDS IrCodec

\* PRONTO fields below the 0x8000 pair count, and one above uint16_t.
MCProntoSmall == {0, 1, 65537}
\* GlobalCache fields, one above uint16_t.
MCGcValues == {0, 1, 65537}
=============================================================================
