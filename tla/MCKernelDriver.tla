--------------------------- MODULE MCKernelDriver ---------------------------
(* The driver, with the kernel as the second device of its name.            *)
EXTENDS KernelDriver

Addresses == {<<1, 1>>, <<2, 2>>}
Both == {Signal}

MCDevices == <<"axi_gpio", "lzw_encode_hw", "lzw_encode_hw">>
=============================================================================
