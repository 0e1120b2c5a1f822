---------------------------- MODULE MCUsbControl ----------------------------
(* A composite device, CDC and mass storage, and a host that sends every    *)
(* request.  The string fills three packets.                                *)
EXTENDS UsbControl
Composite == <<"ctrl", "data", "msc">>

Get(k, l, a, o) == [kind |-> k, in |-> TRUE, len |-> l, arg |-> a, alt |-> 0, obj |-> o]
Set(k, l, a, b) == [kind |-> k, in |-> FALSE, len |-> l, arg |-> a, alt |-> b, obj |-> "none"]

AllRequests ==
  { Get("get_descriptor", 255, 0, "config"), Get("get_descriptor", 255, 0, "string"),
    Get("get_descriptor", 9, 0, "config"), Get("get_descriptor", 130, 0, "string"),
    Get("get_descriptor", 10, 0, "qualifier"), Get("get_status", 2, 131, "endpoint_status"),
    Get("get_status", 2, 0, "device_status"), Get("get_configuration", 1, 0, "configuration"),
    Get("get_interface", 1, 1, "alt_setting"), Get("get_max_lun", 1, 0, "buf"),
    Set("set_address", 0, 1, 0), Set("set_descriptor", 18, 0, 0),
    Set("set_configuration", 0, 0, 0), Set("set_configuration", 0, 1, 0),
    Set("set_configuration", 0, 2, 0),
    Set("set_halt", 0, 131, 0), Set("clear_halt", 0, 131, 0),
    Set("set_interface", 0, 2, 0), Set("set_interface", 0, 2, 1),
    Set("msc_reset", 0, 0, 0), Set("set_line_coding", 7, 0, 0),
    Set("set_line_state", 0, 0, 0), Set("cdc_other", 0, 0, 0), Set("cdc_other", 7, 0, 0) }
=============================================================================
