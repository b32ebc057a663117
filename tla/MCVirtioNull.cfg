\* The smallest stage that maps the layout page after the common page.
SPECIFICATION Spec
CONSTANTS
  Stages = {"m7"}
  Page = 16
  Offsets = {0}
  SlowDevices = {FALSE}
INVARIANT AccessesMapped
CHECK_DEADLOCK FALSE
