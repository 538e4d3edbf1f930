\* A wizard and a dialog, and two calls, which may all overlap.
SPECIFICATION Spec
CONSTANTS
    wizard = wizard
    dialog = dialog
    Wizards <- MCWizards
    Dialogs <- MCDialogs
    MaxCalls = 2
INVARIANTS
    RefusalLeavesNoTrace
    ConfiguredIsOnboarded
    SuccessIsWhole
